---- MODULE Spec2Model ----
(***************************************************************************)
(* Conversation state machine of the Azure provisioning chatbot             *)
(* (backend/app/main.py, chat/conversation.py, chat/flows.py).              *)
(*                                                                         *)
(* Python str values are tuples of one-character strings, so that strip,    *)
(* lower, substring search, isdigit and int are computed as the code        *)
(* computes them.  Enum members (ConversationState, ResourceType) and       *)
(* fixed message texts are TLA+ strings.                                    *)
(*                                                                         *)
(* Every service call under create_azure_resource blocks on                *)
(* poller.result() inside its coroutine and never yields to the event       *)
(* loop, so one request of the chat endpoint runs to completion before the *)
(* next one starts: each endpoint is one action.                            *)
(***************************************************************************)
EXTENDS Integers, Sequences, FiniteSets, TLC

\* ------------------------------------------------------------------ str

\* Python None where a str is expected (no str is a tuple holding "None").
None == <<"None">>

UpperChars == <<"A","B","C","D","E","F","G","H","I","J","K","L","M","N","O","P","Q","R","S","T","U","V","W","X","Y","Z">>

LowerChars == <<"a","b","c","d","e","f","g","h","i","j","k","l","m","n","o","p","q","r","s","t","u","v","w","x","y","z">>

DigitChars == <<"0","1","2","3","4","5","6","7","8","9">>

InSeq(c, seq) == \E i \in 1..Len(seq) : seq[i] = c

IndexIn(c, seq) == CHOOSE i \in 1..Len(seq) : seq[i] = c

\* str.lower(), one character
LowerChar(c) == IF InSeq(c, UpperChars) THEN LowerChars[IndexIn(c, UpperChars)] ELSE c

\* str.lower()
Lower(s) == [i \in 1..Len(s) |-> LowerChar(s[i])]

RECURSIVE LStrip(_)
LStrip(s) == IF s # <<>> /\ Head(s) = " " THEN LStrip(Tail(s)) ELSE s

RECURSIVE RStrip(_)
RStrip(s) == IF s # <<>> /\ s[Len(s)] = " " THEN RStrip(SubSeq(s, 1, Len(s) - 1)) ELSE s

\* str.strip()
Strip(s) == RStrip(LStrip(s))

\* str.isdigit()
IsDigit(s) == s # <<>> /\ \A i \in 1..Len(s) : InSeq(s[i], DigitChars)

RECURSIVE ToInt(_)
\* int(s) for a string of decimal digits
ToInt(s) == IF s = <<>> THEN 0 ELSE 10 * ToInt(SubSeq(s, 1, Len(s) - 1)) + (IndexIn(s[Len(s)], DigitChars) - 1)

\* needle in hay
Contains(needle, hay) == \E i \in 0..(Len(hay) - Len(needle)) : SubSeq(hay, i + 1, i + Len(needle)) = needle

\* s.startswith(p)
StartsWith(s, p) == Len(s) >= Len(p) /\ SubSeq(s, 1, Len(p)) = p

\* str.isalnum()
IsAlnum(s) == s # <<>> /\ \A i \in 1..Len(s) : InSeq(s[i], DigitChars) \/ InSeq(s[i], LowerChars) \/ InSeq(s[i], UpperChars)

\* str.islower(): some cased character, none of them upper case
IsLowerStr(s) == (\E i \in 1..Len(s) : InSeq(s[i], LowerChars)) /\ (\A i \in 1..Len(s) : ~InSeq(s[i], UpperChars))

\* s.replace(c, "")
Without(s, c) == SelectSeq(s, LAMBDA x : x # c)

\* len(s.split(c)) for a one-character separator
SplitCount(s, c) == Len(SelectSeq(s, LAMBDA x : x = c)) + 1

\* ------------------------------------------------------------------ dict

EmptyDict == [k \in {} |-> TRUE]

DictGet(d, k, dflt) == IF k \in DOMAIN d THEN d[k] ELSE dflt

DictSet(d, k, v) == [x \in (DOMAIN d) \cup {k} |-> IF x = k THEN v ELSE d[x]]

\* ------------------------------------------------------------------ enums

\* schemas.ConversationState
ConversationState == {"initial", "resource_selection", "subscription", "resource_group", "region", "resource_config", "confirmation", "execution_method", "creating", "completed", "error"}

\* schemas.ResourceType
ResourceType == {"vm", "vnet", "storage", "aks", "nic", "publicip", "postgresql", "mysql", "sqldb", "cosmosdb"}

\* resource_type: Optional[ResourceType] = None
NoResourceType == "None"

\* ------------------------------------------------------------------ option lists

VM_SIZES == <<
  <<"S","t","a","n","d","a","r","d","_","B","1","s">>, <<"S","t","a","n","d","a","r","d","_","B","2","s">>, <<"S","t","a","n","d","a","r","d","_","B","2","m","s">>, <<"S","t","a","n","d","a","r","d","_","D","2","s","_","v","3">>, <<"S","t","a","n","d","a","r","d","_","D","4","s","_","v","3">>,
  <<"S","t","a","n","d","a","r","d","_","D","8","s","_","v","3">>, <<"S","t","a","n","d","a","r","d","_","E","2","s","_","v","3">>, <<"S","t","a","n","d","a","r","d","_","E","4","s","_","v","3">>, <<"S","t","a","n","d","a","r","d","_","F","2","s","_","v","2">>, <<"S","t","a","n","d","a","r","d","_","F","4","s","_","v","2">> >>

\* list(OS_IMAGES.keys())
OS_IMAGES == << <<"U","b","u","n","t","u","2","2","0","4">>, <<"U","b","u","n","t","u","2","0","0","4">>, <<"W","i","n","d","o","w","s","S","e","r","v","e","r","2","0","2","2">>, <<"W","i","n","d","o","w","s","S","e","r","v","e","r","2","0","1","9">>, <<"R","H","E","L","8">>, <<"D","e","b","i","a","n","1","1">> >>

AZURE_REGIONS == <<
  <<"e","a","s","t","u","s">>, <<"e","a","s","t","u","s","2">>, <<"w","e","s","t","u","s">>, <<"w","e","s","t","u","s","2">>, <<"w","e","s","t","u","s","3">>, <<"c","e","n","t","r","a","l","u","s">>, <<"n","o","r","t","h","c","e","n","t","r","a","l","u","s">>,
  <<"s","o","u","t","h","c","e","n","t","r","a","l","u","s">>, <<"w","e","s","t","c","e","n","t","r","a","l","u","s">>, <<"c","a","n","a","d","a","c","e","n","t","r","a","l">>, <<"c","a","n","a","d","a","e","a","s","t">>, <<"b","r","a","z","i","l","s","o","u","t","h">>,
  <<"n","o","r","t","h","e","u","r","o","p","e">>, <<"w","e","s","t","e","u","r","o","p","e">>, <<"u","k","s","o","u","t","h">>, <<"u","k","w","e","s","t">>, <<"f","r","a","n","c","e","c","e","n","t","r","a","l">>, <<"g","e","r","m","a","n","y","w","e","s","t","c","e","n","t","r","a","l">>,
  <<"n","o","r","w","a","y","e","a","s","t">>, <<"s","w","i","t","z","e","r","l","a","n","d","n","o","r","t","h">>, <<"u","a","e","n","o","r","t","h">>, <<"s","o","u","t","h","a","f","r","i","c","a","n","o","r","t","h">>, <<"a","u","s","t","r","a","l","i","a","e","a","s","t">>,
  <<"a","u","s","t","r","a","l","i","a","s","o","u","t","h","e","a","s","t">>, <<"c","e","n","t","r","a","l","i","n","d","i","a">>, <<"s","o","u","t","h","i","n","d","i","a">>, <<"j","a","p","a","n","e","a","s","t">>, <<"j","a","p","a","n","w","e","s","t">>,
  <<"k","o","r","e","a","c","e","n","t","r","a","l">>, <<"s","o","u","t","h","e","a","s","t","a","s","i","a">>, <<"e","a","s","t","a","s","i","a">> >>

STORAGE_SKUS == << <<"S","t","a","n","d","a","r","d","_","L","R","S">>, <<"S","t","a","n","d","a","r","d","_","G","R","S">>, <<"S","t","a","n","d","a","r","d","_","R","A","G","R","S">>, <<"S","t","a","n","d","a","r","d","_","Z","R","S">>, <<"P","r","e","m","i","u","m","_","L","R","S">>, <<"P","r","e","m","i","u","m","_","Z","R","S">> >>

STORAGE_KINDS == << <<"S","t","o","r","a","g","e","V","2">>, <<"S","t","o","r","a","g","e">>, <<"B","l","o","b","S","t","o","r","a","g","e">>, <<"B","l","o","c","k","B","l","o","b","S","t","o","r","a","g","e">>, <<"F","i","l","e","S","t","o","r","a","g","e">> >>

ACCESS_TIERS == << <<"H","o","t">>, <<"C","o","o","l">> >>

AKS_VM_SIZES == <<
  <<"S","t","a","n","d","a","r","d","_","D","2","s","_","v","3">>, <<"S","t","a","n","d","a","r","d","_","D","4","s","_","v","3">>, <<"S","t","a","n","d","a","r","d","_","D","8","s","_","v","3">>, <<"S","t","a","n","d","a","r","d","_","D","2","s","_","v","4">>, <<"S","t","a","n","d","a","r","d","_","D","4","s","_","v","4">>,
  <<"S","t","a","n","d","a","r","d","_","E","2","s","_","v","3">>, <<"S","t","a","n","d","a","r","d","_","E","4","s","_","v","3">>, <<"S","t","a","n","d","a","r","d","_","B","2","s">>, <<"S","t","a","n","d","a","r","d","_","B","4","m","s">>, <<"S","t","a","n","d","a","r","d","_","F","4","s","_","v","2">> >>

K8S_VERSIONS == << <<"1",".","2","8">>, <<"1",".","2","7">>, <<"1",".","2","6">> >>

NETWORK_PLUGINS == << <<"a","z","u","r","e">>, <<"k","u","b","e","n","e","t">> >>

POSTGRESQL_SKUS == << <<"S","t","a","n","d","a","r","d","_","B","1","m","s">>, <<"S","t","a","n","d","a","r","d","_","B","2","s">>, <<"S","t","a","n","d","a","r","d","_","D","2","s","_","v","3">>, <<"S","t","a","n","d","a","r","d","_","D","4","s","_","v","3">>, <<"S","t","a","n","d","a","r","d","_","E","2","s","_","v","3">> >>

POSTGRESQL_VERSIONS == << <<"1","6">>, <<"1","5">>, <<"1","4">>, <<"1","3">>, <<"1","2">> >>

MYSQL_SKUS == << <<"S","t","a","n","d","a","r","d","_","B","1","m","s">>, <<"S","t","a","n","d","a","r","d","_","B","2","s">>, <<"S","t","a","n","d","a","r","d","_","D","2","d","s","_","v","4">>, <<"S","t","a","n","d","a","r","d","_","D","4","d","s","_","v","4">>, <<"S","t","a","n","d","a","r","d","_","E","2","d","s","_","v","4">> >>

MYSQL_VERSIONS == << <<"8",".","0",".","2","1">>, <<"5",".","7">> >>

SQL_TIERS == << <<"B","a","s","i","c">>, <<"S","t","a","n","d","a","r","d">>, <<"P","r","e","m","i","u","m">>, <<"G","e","n","e","r","a","l","P","u","r","p","o","s","e">>, <<"B","u","s","i","n","e","s","s","C","r","i","t","i","c","a","l">> >>

COSMOS_CONSISTENCY_LEVELS == << <<"E","v","e","n","t","u","a","l">>, <<"C","o","n","s","i","s","t","e","n","t","P","r","e","f","i","x">>, <<"S","e","s","s","i","o","n">>, <<"B","o","u","n","d","e","d","S","t","a","l","e","n","e","s","s">>, <<"S","t","r","o","n","g">> >>

\* popular_regions of handle_resource_group and handle_region
PopularRegions == << <<"e","a","s","t","u","s">>, <<"w","e","s","t","u","s","2">>, <<"w","e","s","t","e","u","r","o","p","e">>, <<"n","o","r","t","h","e","u","r","o","p","e">>, <<"s","o","u","t","h","e","a","s","t","a","s","i","a">>, <<"a","u","s","t","r","a","l","i","a","e","a","s","t">> >>

\* ------------------------------------------------------------------ question schema

\* A question definition.  opts = <<>> stands for a question without "options",
\* validation = "none" for one without "validation", transform = "none" for one
\* without "transform", dflt = None for default None or no "default".
Q(key, opts, validation, error, dflt, transform) == [key |-> key, options |-> opts, validation |-> validation, error |-> error, default |-> dflt, transform |-> transform]

HasOptions(q) == q.options # <<>>

\* The "validation" lambdas of the question lists, by name.
Validation(kind, x) ==
  CASE kind = "vm_name" -> Len(x) >= 1 /\ Len(x) <= 64
    [] kind = "vm_admin" -> Len(x) >= 1 /\ Len(x) <= 64 /\ Lower(x) \notin {<<"a","d","m","i","n">>, <<"a","d","m","i","n","i","s","t","r","a","t","o","r">>, <<"r","o","o","t">>}
    [] kind = "vnet_name" -> Len(x) >= 2 /\ Len(x) <= 64
    [] kind = "cidr" -> InSeq("/", x) /\ SplitCount(x, "/") = 2
    [] kind = "storage_name" -> Len(x) >= 3 /\ Len(x) <= 24 /\ IsAlnum(x) /\ IsLowerStr(x)
    [] kind = "aks_name" -> Len(x) >= 1 /\ Len(x) <= 63 /\ IsAlnum(Without(Without(x, "-"), "_"))
    [] kind = "aks_dns" -> Len(x) >= 1 /\ IsAlnum(Without(x, "-"))
    [] kind = "aks_nodes" -> IsDigit(x) /\ 1 <= ToInt(x) /\ ToInt(x) <= 100
    [] kind = "server_name_3" -> Len(x) >= 3 /\ Len(x) <= 63 /\ IsAlnum(Without(x, "-"))
    [] kind = "pg_storage" -> IsDigit(x) /\ 32 <= ToInt(x) /\ ToInt(x) <= 16384
    [] kind = "pg_admin" -> Len(x) >= 1 /\ Lower(x) \notin {<<"a","d","m","i","n">>, <<"a","d","m","i","n","i","s","t","r","a","t","o","r">>, <<"r","o","o","t">>, <<"p","o","s","t","g","r","e","s">>, <<"a","z","u","r","e","_","s","u","p","e","r","u","s","e","r">>}
    [] kind = "mysql_storage" -> IsDigit(x) /\ 20 <= ToInt(x) /\ ToInt(x) <= 16384
    [] kind = "mysql_admin" -> Len(x) >= 1 /\ Lower(x) \notin {<<"a","d","m","i","n">>, <<"a","d","m","i","n","i","s","t","r","a","t","o","r">>, <<"r","o","o","t">>, <<"m","y","s","q","l">>, <<"a","z","u","r","e","_","s","u","p","e","r","u","s","e","r">>}
    [] kind = "sqldb_name" -> Len(x) >= 1 /\ Len(x) <= 128
    [] kind = "server_name_1" -> Len(x) >= 1 /\ Len(x) <= 63 /\ IsAlnum(Without(x, "-"))
    [] kind = "sqldb_admin" -> Len(x) >= 1 /\ Lower(x) \notin {<<"a","d","m","i","n">>, <<"a","d","m","i","n","i","s","t","r","a","t","o","r">>, <<"s","a">>, <<"r","o","o","t">>}
    [] kind = "cosmos_name" -> Len(x) >= 3 /\ Len(x) <= 44 /\ IsAlnum(Without(x, "-")) /\ IsLowerStr(x)
    [] OTHER -> TRUE

\* The "transform" lambdas of the question lists, by name.
Transform(kind, x) ==
  CASE kind = "yes_no" -> (Lower(x) = <<"y","e","s">>)
    [] kind = "int" -> ToInt(x)
    [] OTHER -> x

\* VM_QUESTIONS with another default size
VM_QUESTIONS_other_size == <<
  Q("name", <<>>, "vm_name", "VM name must be between 1 and 64 characters.", None, "none"),
  Q("size", VM_SIZES, "none", "", <<"S","t","a","n","d","a","r","d","_","B","1","s">>, "none"),
  Q("os_image", OS_IMAGES, "none", "", <<"U","b","u","n","t","u","2","2","0","4">>, "none"),
  Q("os_disk_type", << <<"S","t","a","n","d","a","r","d","_","L","R","S">>, <<"S","t","a","n","d","a","r","d","S","S","D","_","L","R","S">>, <<"P","r","e","m","i","u","m","_","L","R","S">> >>, "none", "", <<"S","t","a","n","d","a","r","d","_","L","R","S">>, "none"),
  Q("admin_username", <<>>, "vm_admin", "Username must be 1-64 characters and cannot be 'admin', 'administrator', or 'root'.", <<"a","z","u","r","e","u","s","e","r">>, "none"),
  Q("create_public_ip", << <<"y","e","s">>, <<"n","o">> >>, "none", "", <<"y","e","s">>, "yes_no") >>

VM_QUESTIONS == <<
  Q("name", <<>>, "vm_name", "VM name must be between 1 and 64 characters.", None, "none"),
  Q("size", VM_SIZES, "none", "", <<"S","t","a","n","d","a","r","d","_","B","2","s">>, "none"),
  Q("os_image", OS_IMAGES, "none", "", <<"U","b","u","n","t","u","2","2","0","4">>, "none"),
  Q("os_disk_type", << <<"S","t","a","n","d","a","r","d","_","L","R","S">>, <<"S","t","a","n","d","a","r","d","S","S","D","_","L","R","S">>, <<"P","r","e","m","i","u","m","_","L","R","S">> >>, "none", "", <<"S","t","a","n","d","a","r","d","_","L","R","S">>, "none"),
  Q("admin_username", <<>>, "vm_admin", "Username must be 1-64 characters and cannot be 'admin', 'administrator', or 'root'.", <<"a","z","u","r","e","u","s","e","r">>, "none"),
  Q("create_public_ip", << <<"y","e","s">>, <<"n","o">> >>, "none", "", <<"y","e","s">>, "yes_no") >>

VNET_QUESTIONS == <<
  Q("name", <<>>, "vnet_name", "VNet name must be between 2 and 64 characters.", None, "none"),
  Q("address_space", <<>>, "cidr", "Please enter a valid CIDR notation (e.g., 10.0.0.0/16).", <<"1","0",".","0",".","0",".","0","/","1","6">>, "none"),
  Q("subnet_name", <<>>, "none", "", <<"d","e","f","a","u","l","t">>, "none"),
  Q("subnet_prefix", <<>>, "cidr", "Please enter a valid CIDR notation (e.g., 10.0.0.0/24).", <<"1","0",".","0",".","0",".","0","/","2","4">>, "none") >>

STORAGE_QUESTIONS == <<
  Q("name", <<>>, "storage_name", "Storage account name must be 3-24 characters, lowercase letters and numbers only.", None, "none"),
  Q("sku", STORAGE_SKUS, "none", "", <<"S","t","a","n","d","a","r","d","_","L","R","S">>, "none"),
  Q("kind", STORAGE_KINDS, "none", "", <<"S","t","o","r","a","g","e","V","2">>, "none"),
  Q("access_tier", ACCESS_TIERS, "none", "", <<"H","o","t">>, "none") >>

AKS_QUESTIONS == <<
  Q("name", <<>>, "aks_name", "AKS name must be 1-63 characters, alphanumeric, hyphens, and underscores only.", None, "none"),
  Q("dns_prefix", <<>>, "aks_dns", "DNS prefix must be alphanumeric with optional hyphens.", None, "none"),
  Q("kubernetes_version", K8S_VERSIONS, "none", "", <<"1",".","2","8">>, "none"),
  Q("node_count", <<>>, "aks_nodes", "Node count must be between 1 and 100.", <<"3">>, "int"),
  Q("node_vm_size", AKS_VM_SIZES, "none", "", <<"S","t","a","n","d","a","r","d","_","D","2","s","_","v","3">>, "none"),
  Q("network_plugin", NETWORK_PLUGINS, "none", "", <<"a","z","u","r","e">>, "none") >>

\* POSTGRESQL_QUESTIONS with a default version that is not among the versions offered
POSTGRESQL_QUESTIONS_other_version == <<
  Q("name", <<>>, "server_name_3", "Server name must be 3-63 characters, lowercase letters, numbers, and hyphens.", None, "none"),
  Q("version", POSTGRESQL_VERSIONS, "none", "", <<"1","7">>, "none"),
  Q("sku", POSTGRESQL_SKUS, "none", "", <<"S","t","a","n","d","a","r","d","_","B","1","m","s">>, "none"),
  Q("storage_gb", <<>>, "pg_storage", "Storage must be between 32 and 16384 GB.", <<"3","2">>, "int"),
  Q("admin_username", <<>>, "pg_admin", "Username cannot be reserved words like admin, postgres, root, etc.", <<"p","g","a","d","m","i","n">>, "none") >>

POSTGRESQL_QUESTIONS == <<
  Q("name", <<>>, "server_name_3", "Server name must be 3-63 characters, lowercase letters, numbers, and hyphens.", None, "none"),
  Q("version", POSTGRESQL_VERSIONS, "none", "", <<"1","5">>, "none"),
  Q("sku", POSTGRESQL_SKUS, "none", "", <<"S","t","a","n","d","a","r","d","_","B","1","m","s">>, "none"),
  Q("storage_gb", <<>>, "pg_storage", "Storage must be between 32 and 16384 GB.", <<"3","2">>, "int"),
  Q("admin_username", <<>>, "pg_admin", "Username cannot be reserved words like admin, postgres, root, etc.", <<"p","g","a","d","m","i","n">>, "none") >>

MYSQL_QUESTIONS == <<
  Q("name", <<>>, "server_name_3", "Server name must be 3-63 characters, lowercase letters, numbers, and hyphens.", None, "none"),
  Q("version", MYSQL_VERSIONS, "none", "", <<"8",".","0",".","2","1">>, "none"),
  Q("sku", MYSQL_SKUS, "none", "", <<"S","t","a","n","d","a","r","d","_","B","1","m","s">>, "none"),
  Q("storage_gb", <<>>, "mysql_storage", "Storage must be between 20 and 16384 GB.", <<"3","2">>, "int"),
  Q("admin_username", <<>>, "mysql_admin", "Username cannot be reserved words like admin, mysql, root, etc.", <<"m","y","s","q","l","a","d","m","i","n">>, "none") >>

SQLDB_QUESTIONS == <<
  Q("name", <<>>, "sqldb_name", "Database name must be 1-128 characters.", None, "none"),
  Q("server_name", <<>>, "server_name_1", "Server name must be 1-63 characters, lowercase letters, numbers, and hyphens.", None, "none"),
  Q("tier", SQL_TIERS, "none", "", <<"B","a","s","i","c">>, "none"),
  Q("admin_username", <<>>, "sqldb_admin", "Username cannot be reserved words like admin, sa, root.", <<"s","q","l","a","d","m","i","n">>, "none") >>

COSMOSDB_QUESTIONS == <<
  Q("name", <<>>, "cosmos_name", "Account name must be 3-44 characters, lowercase letters, numbers, and hyphens.", None, "none"),
  Q("api_type", << <<"S","Q","L">>, <<"M","o","n","g","o","D","B">>, <<"C","a","s","s","a","n","d","r","a">>, <<"T","a","b","l","e">>, <<"G","r","e","m","l","i","n">> >>, "none", "", <<"S","Q","L">>, "none"),
  Q("consistency_level", COSMOS_CONSISTENCY_LEVELS, "none", "", <<"S","e","s","s","i","o","n">>, "none"),
  Q("enable_free_tier", << <<"y","e","s">>, <<"n","o">> >>, "none", "", <<"n","o">>, "yes_no") >>

\* ResourceFlows.get_questions_for_resource
get_questions_for_resource(resource_type) ==
  CASE resource_type = "vm" -> VM_QUESTIONS
    [] resource_type = "vnet" -> VNET_QUESTIONS
    [] resource_type = "storage" -> STORAGE_QUESTIONS
    [] resource_type = "aks" -> AKS_QUESTIONS
    [] resource_type = "postgresql" -> POSTGRESQL_QUESTIONS
    [] resource_type = "mysql" -> MYSQL_QUESTIONS
    [] resource_type = "sqldb" -> SQLDB_QUESTIONS
    [] resource_type = "cosmosdb" -> COSMOSDB_QUESTIONS
    [] OTHER -> <<>>

\* ------------------------------------------------------------------ ResourceFlows

\* ResourceFlows.RESOURCE_OPTIONS, in dict order
RESOURCE_OPTIONS == <<
  [key |-> <<"v","m">>, name |-> <<"V","i","r","t","u","a","l"," ","M","a","c","h","i","n","e">>, rt |-> "vm"],
  [key |-> <<"v","n","e","t">>, name |-> <<"V","i","r","t","u","a","l"," ","N","e","t","w","o","r","k">>, rt |-> "vnet"],
  [key |-> <<"s","t","o","r","a","g","e">>, name |-> <<"S","t","o","r","a","g","e"," ","A","c","c","o","u","n","t">>, rt |-> "storage"],
  [key |-> <<"a","k","s">>, name |-> <<"A","K","S"," ","C","l","u","s","t","e","r">>, rt |-> "aks"],
  [key |-> <<"p","o","s","t","g","r","e","s","q","l">>, name |-> <<"P","o","s","t","g","r","e","S","Q","L"," ","D","a","t","a","b","a","s","e">>, rt |-> "postgresql"],
  [key |-> <<"m","y","s","q","l">>, name |-> <<"M","y","S","Q","L"," ","D","a","t","a","b","a","s","e">>, rt |-> "mysql"],
  [key |-> <<"s","q","l","d","b">>, name |-> <<"A","z","u","r","e"," ","S","Q","L"," ","D","a","t","a","b","a","s","e">>, rt |-> "sqldb"],
  [key |-> <<"c","o","s","m","o","s","d","b">>, name |-> <<"C","o","s","m","o","s"," ","D","B">>, rt |-> "cosmosdb"] >>

\* The "Direct matches" loop of parse_resource_selection: indexes of the options that match
DirectMatches(u) == {i \in 1..Len(RESOURCE_OPTIONS) : Contains(RESOURCE_OPTIONS[i].key, u) \/ Contains(Lower(RESOURCE_OPTIONS[i].name), u)}

\* The "Partial matches" chain of parse_resource_selection
PartialMatch(u) ==
  IF Contains(<<"v","i","r","t","u","a","l"," ","m","a","c","h","i","n","e">>, u) \/ Contains(<<"v","m">>, u) THEN "vm"
  ELSE IF Contains(<<"v","i","r","t","u","a","l"," ","n","e","t","w","o","r","k">>, u) \/ Contains(<<"v","n","e","t">>, u) \/ (Contains(<<"n","e","t","w","o","r","k">>, u) /\ Contains(<<"v","n">>, u)) THEN "vnet"
  ELSE IF Contains(<<"s","t","o","r","a","g","e">>, u) \/ Contains(<<"b","l","o","b">>, u) THEN "storage"
  ELSE IF Contains(<<"a","k","s">>, u) \/ Contains(<<"k","u","b","e","r","n","e","t","e","s">>, u) \/ Contains(<<"k","8","s">>, u) THEN "aks"
  ELSE IF Contains(<<"p","o","s","t","g","r","e","s","q","l">>, u) \/ Contains(<<"p","o","s","t","g","r","e","s">>, u) \/ Contains(<<"p","g","s","q","l">>, u) THEN "postgresql"
  ELSE IF Contains(<<"m","y","s","q","l">>, u) THEN "mysql"
  ELSE IF Contains(<<"s","q","l">>, u) /\ ~Contains(<<"c","o","s","m","o","s">>, u) THEN "sqldb"
  ELSE IF Contains(<<"c","o","s","m","o","s">>, u) \/ Contains(<<"d","o","c","u","m","e","n","t","d","b">>, u) \/ Contains(<<"n","o","s","q","l">>, u) THEN "cosmosdb"
  ELSE IF Contains(<<"d","a","t","a","b","a","s","e">>, u) \/ Contains(<<"d","b">>, u) THEN "postgresql"
  ELSE NoResourceType

\* parse_resource_selection that tries the category keywords before the direct matches
parse_resource_selection_keywords_first(user_input) ==
  LET u == Strip(Lower(user_input))
      direct == DirectMatches(u)
  IN IF PartialMatch(u) # NoResourceType THEN PartialMatch(u)
     ELSE IF direct # {} THEN RESOURCE_OPTIONS[CHOOSE i \in direct : \A j \in direct : i <= j].rt
     ELSE NoResourceType

\* ResourceFlows.parse_resource_selection
parse_resource_selection(user_input) ==
  LET u == Strip(Lower(user_input))
      direct == DirectMatches(u)
  IN IF direct # {} THEN RESOURCE_OPTIONS[CHOOSE i \in direct : \A j \in direct : i <= j].rt
     ELSE PartialMatch(u)

\* No error message
NoError == [text |-> "", options |-> <<>>]

\* validate_answer that takes a numeric input as a 0-based index
validate_answer_zero_based(question, answer) ==
  LET stripped == Strip(answer)
      a1 == IF stripped = <<>> /\ question.default # None THEN question.default ELSE stripped
      options == question.options
      idx == IF IsDigit(a1) THEN ToInt(a1) ELSE -1
      a2 == IF HasOptions(question) /\ IsDigit(a1) /\ 0 <= idx /\ idx < Len(options) THEN options[idx + 1] ELSE a1
      hits == {i \in 1..Len(options) : Lower(options[i]) = Lower(a2)}
      a3 == IF HasOptions(question) /\ hits # {} THEN options[CHOOSE i \in hits : \A j \in hits : i <= j] ELSE a2
  IN IF HasOptions(question) /\ hits = {}
       THEN [ok |-> FALSE, error |-> [text |-> "Please select from: ", options |-> options], value |-> None]
     ELSE IF question.validation # "none" /\ ~Validation(question.validation, a3)
       THEN [ok |-> FALSE, error |-> [text |-> question.error, options |-> <<>>], value |-> None]
     ELSE [ok |-> TRUE, error |-> NoError, value |-> Transform(question.transform, a3)]

\* ResourceFlows.validate_answer: (is_valid, error_message, transformed_value)
validate_answer(question, answer) ==
  LET stripped == Strip(answer)
      a1 == IF stripped = <<>> /\ question.default # None THEN question.default ELSE stripped
      options == question.options
      idx == IF IsDigit(a1) THEN ToInt(a1) - 1 ELSE -1
      a2 == IF HasOptions(question) /\ IsDigit(a1) /\ 0 <= idx /\ idx < Len(options) THEN options[idx + 1] ELSE a1
      hits == {i \in 1..Len(options) : Lower(options[i]) = Lower(a2)}
      a3 == IF HasOptions(question) /\ hits # {} THEN options[CHOOSE i \in hits : \A j \in hits : i <= j] ELSE a2
  IN IF HasOptions(question) /\ hits = {}
       THEN [ok |-> FALSE, error |-> [text |-> "Please select from: ", options |-> options], value |-> None]
     ELSE IF question.validation # "none" /\ ~Validation(question.validation, a3)
       THEN [ok |-> FALSE, error |-> [text |-> question.error, options |-> <<>>], value |-> None]
     ELSE [ok |-> TRUE, error |-> NoError, value |-> Transform(question.transform, a3)]

\* build_config_from_answers with other defaults for the VM size and the Cosmos DB consistency level
build_config_from_answers_other_defaults(resource_type, answers) ==
  CASE resource_type = "vm" ->
         [name |-> DictGet(answers, "name", None),
          size |-> DictGet(answers, "size", <<"S","t","a","n","d","a","r","d","_","B","1","s">>),
          os_image |-> DictGet(answers, "os_image", <<"U","b","u","n","t","u","2","2","0","4">>),
          os_disk_type |-> DictGet(answers, "os_disk_type", <<"S","t","a","n","d","a","r","d","_","L","R","S">>),
          admin_username |-> DictGet(answers, "admin_username", <<"a","z","u","r","e","u","s","e","r">>),
          create_public_ip |-> DictGet(answers, "create_public_ip", TRUE),
          generate_ssh_key |-> TRUE]
    [] resource_type = "vnet" ->
         [name |-> DictGet(answers, "name", None),
          address_space |-> DictGet(answers, "address_space", <<"1","0",".","0",".","0",".","0","/","1","6">>),
          subnets |-> << [name |-> DictGet(answers, "subnet_name", <<"d","e","f","a","u","l","t">>),
                          address_prefix |-> DictGet(answers, "subnet_prefix", <<"1","0",".","0",".","0",".","0","/","2","4">>)] >>]
    [] resource_type = "storage" ->
         [name |-> DictGet(answers, "name", None),
          sku |-> DictGet(answers, "sku", <<"S","t","a","n","d","a","r","d","_","L","R","S">>),
          kind |-> DictGet(answers, "kind", <<"S","t","o","r","a","g","e","V","2">>),
          access_tier |-> DictGet(answers, "access_tier", <<"H","o","t">>),
          enable_https_only |-> TRUE]
    [] resource_type = "aks" ->
         [name |-> DictGet(answers, "name", None),
          dns_prefix |-> DictGet(answers, "dns_prefix", DictGet(answers, "name", None)),
          kubernetes_version |-> DictGet(answers, "kubernetes_version", <<"1",".","2","8">>),
          node_count |-> DictGet(answers, "node_count", 3),
          node_vm_size |-> DictGet(answers, "node_vm_size", <<"S","t","a","n","d","a","r","d","_","D","2","s","_","v","3">>),
          network_plugin |-> DictGet(answers, "network_plugin", <<"a","z","u","r","e">>),
          enable_rbac |-> TRUE]
    [] resource_type = "postgresql" ->
         [name |-> DictGet(answers, "name", None),
          version |-> DictGet(answers, "version", <<"1","5">>),
          sku |-> DictGet(answers, "sku", <<"S","t","a","n","d","a","r","d","_","B","1","m","s">>),
          storage_gb |-> DictGet(answers, "storage_gb", 32),
          admin_username |-> DictGet(answers, "admin_username", <<"p","g","a","d","m","i","n">>)]
    [] resource_type = "mysql" ->
         [name |-> DictGet(answers, "name", None),
          version |-> DictGet(answers, "version", <<"8",".","0",".","2","1">>),
          sku |-> DictGet(answers, "sku", <<"S","t","a","n","d","a","r","d","_","B","1","m","s">>),
          storage_gb |-> DictGet(answers, "storage_gb", 32),
          admin_username |-> DictGet(answers, "admin_username", <<"m","y","s","q","l","a","d","m","i","n">>)]
    [] resource_type = "sqldb" ->
         [name |-> DictGet(answers, "name", None),
          server_name |-> DictGet(answers, "server_name", None),
          tier |-> DictGet(answers, "tier", <<"B","a","s","i","c">>),
          admin_username |-> DictGet(answers, "admin_username", <<"s","q","l","a","d","m","i","n">>)]
    [] resource_type = "cosmosdb" ->
         [name |-> DictGet(answers, "name", None),
          api_type |-> DictGet(answers, "api_type", <<"S","Q","L">>),
          consistency_level |-> DictGet(answers, "consistency_level", <<"E","v","e","n","t","u","a","l">>),
          enable_free_tier |-> DictGet(answers, "enable_free_tier", FALSE)]
    [] OTHER -> answers

\* ResourceFlows.build_config_from_answers
build_config_from_answers(resource_type, answers) ==
  CASE resource_type = "vm" ->
         [name |-> DictGet(answers, "name", None),
          size |-> DictGet(answers, "size", <<"S","t","a","n","d","a","r","d","_","B","2","s">>),
          os_image |-> DictGet(answers, "os_image", <<"U","b","u","n","t","u","2","2","0","4">>),
          os_disk_type |-> DictGet(answers, "os_disk_type", <<"S","t","a","n","d","a","r","d","_","L","R","S">>),
          admin_username |-> DictGet(answers, "admin_username", <<"a","z","u","r","e","u","s","e","r">>),
          create_public_ip |-> DictGet(answers, "create_public_ip", TRUE),
          generate_ssh_key |-> TRUE]
    [] resource_type = "vnet" ->
         [name |-> DictGet(answers, "name", None),
          address_space |-> DictGet(answers, "address_space", <<"1","0",".","0",".","0",".","0","/","1","6">>),
          subnets |-> << [name |-> DictGet(answers, "subnet_name", <<"d","e","f","a","u","l","t">>),
                          address_prefix |-> DictGet(answers, "subnet_prefix", <<"1","0",".","0",".","0",".","0","/","2","4">>)] >>]
    [] resource_type = "storage" ->
         [name |-> DictGet(answers, "name", None),
          sku |-> DictGet(answers, "sku", <<"S","t","a","n","d","a","r","d","_","L","R","S">>),
          kind |-> DictGet(answers, "kind", <<"S","t","o","r","a","g","e","V","2">>),
          access_tier |-> DictGet(answers, "access_tier", <<"H","o","t">>),
          enable_https_only |-> TRUE]
    [] resource_type = "aks" ->
         [name |-> DictGet(answers, "name", None),
          dns_prefix |-> DictGet(answers, "dns_prefix", DictGet(answers, "name", None)),
          kubernetes_version |-> DictGet(answers, "kubernetes_version", <<"1",".","2","8">>),
          node_count |-> DictGet(answers, "node_count", 3),
          node_vm_size |-> DictGet(answers, "node_vm_size", <<"S","t","a","n","d","a","r","d","_","D","2","s","_","v","3">>),
          network_plugin |-> DictGet(answers, "network_plugin", <<"a","z","u","r","e">>),
          enable_rbac |-> TRUE]
    [] resource_type = "postgresql" ->
         [name |-> DictGet(answers, "name", None),
          version |-> DictGet(answers, "version", <<"1","5">>),
          sku |-> DictGet(answers, "sku", <<"S","t","a","n","d","a","r","d","_","B","1","m","s">>),
          storage_gb |-> DictGet(answers, "storage_gb", 32),
          admin_username |-> DictGet(answers, "admin_username", <<"p","g","a","d","m","i","n">>)]
    [] resource_type = "mysql" ->
         [name |-> DictGet(answers, "name", None),
          version |-> DictGet(answers, "version", <<"8",".","0",".","2","1">>),
          sku |-> DictGet(answers, "sku", <<"S","t","a","n","d","a","r","d","_","B","1","m","s">>),
          storage_gb |-> DictGet(answers, "storage_gb", 32),
          admin_username |-> DictGet(answers, "admin_username", <<"m","y","s","q","l","a","d","m","i","n">>)]
    [] resource_type = "sqldb" ->
         [name |-> DictGet(answers, "name", None),
          server_name |-> DictGet(answers, "server_name", None),
          tier |-> DictGet(answers, "tier", <<"B","a","s","i","c">>),
          admin_username |-> DictGet(answers, "admin_username", <<"s","q","l","a","d","m","i","n">>)]
    [] resource_type = "cosmosdb" ->
         [name |-> DictGet(answers, "name", None),
          api_type |-> DictGet(answers, "api_type", <<"S","Q","L">>),
          consistency_level |-> DictGet(answers, "consistency_level", <<"S","e","s","s","i","o","n">>),
          enable_free_tier |-> DictGet(answers, "enable_free_tier", FALSE)]
    [] OTHER -> answers

\* ------------------------------------------------------------------ UserStore

\* auth.models.UserRole
UserRole == {"admin", "user"}

\* uuid4 values a user may get as its id
UserIds == {"id1", "id2"}

\* security.hash_password: the hash stands for the password it was made from
hash_password(password) == <<"hash", password>>

\* UserInDB(email=..., username=..., full_name=..., role=..., hashed_password=..., is_active=True)
UserInDB(id, email, username, full_name, role, hashed_password) ==
  [id |-> id, email |-> email, username |-> username, full_name |-> full_name, is_active |-> TRUE,
   role |-> role, hashed_password |-> hashed_password]

\* An id no user of the store has
NewUserId(us) == CHOOSE id \in UserIds : \A i \in 1..Len(us) : us[i].id # id

\* Where the store holds the user with an id (0 if nowhere); the store is a dict,
\* kept here as the list of its values in insertion order
IndexOfUser(us, user_id) ==
  IF \E i \in 1..Len(us) : us[i].id = user_id THEN CHOOSE i \in 1..Len(us) : us[i].id = user_id ELSE 0

\* The first user for which a test holds, as a one-element list, or the empty list for None
FirstUser(us, hits) == IF hits = {} THEN <<>> ELSE <<us[CHOOSE i \in hits : \A j \in hits : i <= j]>>

\* UserStore.get_by_username and get_by_email
get_by_username(us, username) == FirstUser(us, {i \in 1..Len(us) : Lower(us[i].username) = Lower(username)})

get_by_email(us, email) == FirstUser(us, {i \in 1..Len(us) : Lower(us[i].email) = Lower(email)})

\* UserStore._ensure_admin
ensure_admin(us) ==
  IF \E i \in 1..Len(us) : us[i].role = "admin" /\ us[i].username = <<"a","d","m","i","n">> THEN us
  ELSE Append(us, UserInDB(NewUserId(us), <<"a","d","m","i","n","@","a","z","u","r","e","-","c","h","a","t","b","o","t",".","l","o","c","a","l">>, <<"a","d","m","i","n">>, <<"S","y","s","t","e","m"," ","A","d","m","i","n","i","s","t","r","a","t","o","r">>, "admin",
                           hash_password(<<"A","d","m","i","n","@","1","2","3","4","5","6">>)))

\* UserStore.__init__ with no users.json to load
DefaultUsers == ensure_admin(<<>>)

\* What a UserStore method leaves behind: the store, what it returned, what it raised
StoreResult(us, returned, raised) == [users |-> us, returned |-> returned, raised |-> raised]

\* UserStore.create
user_store_create(us, user_create) ==
  IF get_by_username(us, user_create.username) # <<>> THEN StoreResult(us, "None", "Username already exists")
  ELSE IF get_by_email(us, user_create.email) # <<>> THEN StoreResult(us, "None", "Email already exists")
  ELSE StoreResult(Append(us, UserInDB(NewUserId(us), user_create.email, user_create.username, user_create.full_name,
                                       user_create.role, hash_password(user_create.password))),
                   "user", "None")

\* A value of update_data is falsy (None or empty), is None
Falsy(field, value) ==
  CASE field = "is_active" -> ~value
    [] field = "role" -> value = "None"
    [] OTHER -> value \in {None, <<>>}

\* A value of update_data is None; is_active is only ever given a bool
IsNone(field, value) ==
  CASE field = "is_active" -> FALSE
    [] field = "role" -> value = "None"
    [] OTHER -> value = None

\* The fields of UserInDB that update_data can name (hasattr(user, field))
UserFields == {"email", "username", "full_name", "is_active", "role", "hashed_password"}

\* update_data after the password, if one is given, was replaced by its hash
Hashed(update_data) ==
  IF "password" \in DOMAIN update_data /\ ~Falsy("password", update_data.password)
    THEN [f \in ((DOMAIN update_data) \ {"password"}) \cup {"hashed_password"} |->
            IF f = "hashed_password" THEN hash_password(update_data.password) ELSE update_data[f]]
  ELSE update_data

\* UserStore.update, update_data being user_update.model_dump(exclude_unset=True)
user_store_update(us, user_id, update_data) ==
  LET at == IndexOfUser(us, user_id)
  IN IF at = 0 THEN StoreResult(us, "None", "None")
     ELSE IF /\ "username" \in DOMAIN update_data /\ ~Falsy("username", update_data.username)
             /\ get_by_username(us, update_data.username) # <<>>
             /\ get_by_username(us, update_data.username)[1].id # user_id
       THEN StoreResult(us, "None", "Username already exists")
     ELSE IF /\ "email" \in DOMAIN update_data /\ ~Falsy("email", update_data.email)
             /\ get_by_email(us, update_data.email) # <<>>
             /\ get_by_email(us, update_data.email)[1].id # user_id
       THEN StoreResult(us, "None", "Email already exists")
     ELSE LET data == Hashed(update_data)
              set == {f \in (DOMAIN data) \cap UserFields : ~IsNone(f, data[f])}
          IN StoreResult([us EXCEPT ![at] = [f \in DOMAIN us[at] |-> IF f \in set THEN data[f] ELSE us[at][f]]], "user", "None")

\* UserStore.delete
user_store_delete(us, user_id) ==
  LET at == IndexOfUser(us, user_id)
      admin_count == Cardinality({i \in 1..Len(us) : us[i].role = "admin"})
  IN IF at = 0 THEN StoreResult(us, "False", "None")
     ELSE IF us[at].role = "admin" /\ admin_count <= 1 THEN StoreResult(us, "None", "Cannot delete the last admin user")
     ELSE StoreResult([i \in 1..(Len(us) - 1) |-> IF i < at THEN us[i] ELSE us[i + 1]], "True", "None")

\* ------------------------------------------------------------------ bounds and inputs

\* Longest message log a session may hold (chat stops being taken beyond it).
MaxMessages == 24

\* Longest message log of a session that is sent a script.
MaxScripted == 30

\* Session ids in use.
SessionIds == {"s1"}

\* Raw chat messages the user may send, in any state.
Inputs == { <<" ","N","e","w"," ">>, <<"c","o","s","m","o","s">>, <<"D","e","f","a","u","l","t">>, <<"n","e","w",":","r","g","1">>, <<"1">>, <<>>, <<"Y","E","S">>, <<"T","F">>, <<"N","o">>, <<"E","d","i","t">>, <<"A","n","o","t","h","e","r">> }

\* Values of the AZURE_SUBSCRIPTION_ID environment variable: unset, or a GUID.
EnvSubscriptions == { <<>>, <<"0","f","8","f","a","d","5","b","-","d","9","c","b","-","4","6","9","f","-","a","1","6","5","-","7","0","8","6","7","7","2","8","9","5","0","e">> }

\* Authenticated principals (TokenData) a session may be created for, and None.
NoUser == [user_id |-> "None", username |-> "None"]

Principals == {NoUser, [user_id |-> "u1", username |-> "alice"]}

\* Texts of the errors a collaborator may report or raise.
ErrorTexts == {"QuotaExceeded", "AuthorizationFailed"}

\* What the Azure collaborators do when called: whether create_resource_group
\* raises, and whether create_azure_resource succeeds, reports a failure or raises.
Outcomes == [rg_raises : BOOLEAN, kind : {"success", "failure", "raise"}, text : ErrorTexts]

\* ------------------------------------------------------------------ state

VARIABLES
  sessions,          \* ConversationManager.sessions: session id -> ConversationSession
  env_subscription,  \* os.getenv("AZURE_SUBSCRIPTION_ID", "")
  response,          \* the reply of the last request
  calls,             \* collaborator calls made by the last request, in order
  probe,             \* direct calls of ResourceFlows functions: arguments and returned values
  script,            \* a scripted conversation: its messages and how many were sent
  tasks,             \* the chat requests the event loop holds: received, suspended or done
  users,             \* UserStore.users: user id -> UserInDB, in insertion order
  tokens             \* the admin access tokens issued by login and not yet expired

vars == <<sessions, env_subscription, response, calls, probe, script, tasks, users, tokens>>

\* No direct call and no scripted conversation
NoProbe == [fn |-> "None"]

NoScript == [messages |-> <<>>, sent |-> 0]

\* No request held by the event loop
NoTasks == <<>>

\* No access token issued
NoTokens == {}

\* ConversationSession(session_id=..., state=INITIAL, messages=[])
NewSession ==
  [state |-> "initial", resource_type |-> NoResourceType, subscription_id |-> None,
   resource_group |-> None, create_new_rg |-> FALSE, region |-> None, config |-> EmptyDict,
   execution_method |-> "None", messages |-> <<>>, collected_params |-> EmptyDict]

\* ChatMessage(role, content, metadata); the text of a message is never read back
ChatMessage(role) == [role |-> role, metadata |-> "None"]

\* ChatResponse with its optional fields at None
ChatResponse(session_id, message, state) ==
  [endpoint |-> "chat", status |-> 200, session_id |-> session_id, message |-> message, state |-> state,
   question |-> "None", detail |-> NoError, terraform_code |-> <<>>, created_resource |-> <<>>, error |-> "None"]

\* The reply of an endpoint other than chat
HttpResponse(endpoint, status, session_id, message) ==
  [endpoint |-> endpoint, status |-> status, session_id |-> session_id, message |-> message, state |-> "None",
   question |-> "None", detail |-> NoError, terraform_code |-> <<>>, created_resource |-> <<>>, error |-> "None"]

NoResponse == HttpResponse("None", 0, "None", "")

\* What a handler leaves behind: the session map, the reply, the collaborator calls
Result(ss, resp, cs) == [sessions |-> ss, response |-> resp, calls |-> cs]

\* ------------------------------------------------------------------ ConversationManager

get_or_create_session(ss, session_id) == IF session_id \in DOMAIN ss THEN ss ELSE DictSet(ss, session_id, NewSession)

add_message(ss, session_id, role) ==
  LET s1 == get_or_create_session(ss, session_id)
  IN [s1 EXCEPT ![session_id].messages = Append(@, ChatMessage(role))]

set_state(ss, session_id, state) == [get_or_create_session(ss, session_id) EXCEPT ![session_id].state = state]

set_resource_type(ss, session_id, resource_type) == [get_or_create_session(ss, session_id) EXCEPT ![session_id].resource_type = resource_type]

set_subscription(ss, session_id, subscription_id) == [get_or_create_session(ss, session_id) EXCEPT ![session_id].subscription_id = subscription_id]

set_resource_group(ss, session_id, resource_group, create_new) ==
  [get_or_create_session(ss, session_id) EXCEPT ![session_id].resource_group = resource_group, ![session_id].create_new_rg = create_new]

set_region(ss, session_id, region) == [get_or_create_session(ss, session_id) EXCEPT ![session_id].region = region]

set_config(ss, session_id, config) == [get_or_create_session(ss, session_id) EXCEPT ![session_id].config = config]

set_execution_method(ss, session_id, method) == [get_or_create_session(ss, session_id) EXCEPT ![session_id].execution_method = method]

\* reset_session that starts the whole manager afresh
reset_session_of_all(ss, session_id) == DictSet(EmptyDict, session_id, NewSession)

reset_session(ss, session_id) == DictSet(ss, session_id, NewSession)

\* ------------------------------------------------------------------ collaborators

\* TerraformGenerator.generate_terraform: the generated text stands for its inputs
generate_terraform(resource_type, resource_group, region, config, create_new_rg) ==
  [resource_type |-> resource_type, resource_group |-> resource_group, region |-> region, config |-> config, create_new_rg |-> create_new_rg]

\* One collaborator call on behalf of a session, and how it ended
Call(op, session, outcome, error) ==
  [op |-> op, outcome |-> outcome, error |-> error,
   args |-> [resource_type |-> session.resource_type, subscription_id |-> session.subscription_id,
             resource_group |-> session.resource_group, region |-> session.region,
             config |-> session.config, create_new_rg |-> session.create_new_rg]]

\* ------------------------------------------------------------------ handlers

\* handle_initial_state that also picks a resource type for the session
handle_initial_state_picks_type(ss, session_id) ==
  Result(set_state(set_resource_type(ss, session_id, "vm"), session_id, "resource_selection"),
         ChatResponse(session_id, "Welcome to the Azure Provisioning Assistant!", "resource_selection"), <<>>)

handle_initial_state(ss, session_id) ==
  Result(set_state(ss, session_id, "resource_selection"),
         ChatResponse(session_id, "Welcome to the Azure Provisioning Assistant!", "resource_selection"), <<>>)

\* handle_resource_selection that advances without storing the parsed type
handle_resource_selection_forgets_type(ss, session_id, user_message) ==
  LET resource_type == parse_resource_selection(user_message)
  IN IF resource_type = NoResourceType
       THEN Result(ss, ChatResponse(session_id, "I didn't understand that. Please select a resource type:", "resource_selection"), <<>>)
     ELSE Result(set_state(ss, session_id, "subscription"),
                 ChatResponse(session_id, "Please enter your Azure Subscription ID:", "subscription"), <<>>)

handle_resource_selection(ss, session_id, user_message) ==
  LET resource_type == parse_resource_selection(user_message)
  IN IF resource_type = NoResourceType
       THEN Result(ss, ChatResponse(session_id, "I didn't understand that. Please select a resource type:", "resource_selection"), <<>>)
     ELSE Result(set_state(set_resource_type(ss, session_id, resource_type), session_id, "subscription"),
                 ChatResponse(session_id, "Please enter your Azure Subscription ID:", "subscription"), <<>>)

\* handle_subscription that moves on to the wrong stage (REGION instead of RESOURCE_GROUP)
handle_subscription_skips_group(ss, session_id, user_message, env) ==
  LET typed == Strip(user_message)
      is_default == Lower(typed) = <<"d","e","f","a","u","l","t">>
      sub_id == IF is_default THEN env ELSE typed
  IN IF is_default /\ sub_id = <<>>
       THEN Result(ss, ChatResponse(session_id, "No default subscription configured. Please enter your Subscription ID:", "subscription"), <<>>)
     ELSE IF Len(sub_id) < 32
       THEN Result(ss, ChatResponse(session_id, "That doesn't look like a valid Subscription ID.", "subscription"), <<>>)
     ELSE Result(set_state(set_subscription(ss, session_id, sub_id), session_id, "region"),
                 ChatResponse(session_id, "Select an Azure region:", "region"), <<>>)

\* handle_subscription that takes the configured fallback without looking at its length
handle_subscription_trusts_default(ss, session_id, user_message, env) ==
  LET typed == Strip(user_message)
      is_default == Lower(typed) = <<"d","e","f","a","u","l","t">>
      sub_id == IF is_default THEN env ELSE typed
  IN IF is_default /\ sub_id = <<>>
       THEN Result(ss, ChatResponse(session_id, "No default subscription configured. Please enter your Subscription ID:", "subscription"), <<>>)
     ELSE IF ~is_default /\ Len(sub_id) < 32
       THEN Result(ss, ChatResponse(session_id, "That doesn't look like a valid Subscription ID.", "subscription"), <<>>)
     ELSE Result(set_state(set_subscription(ss, session_id, sub_id), session_id, "resource_group"),
                 ChatResponse(session_id, "Enter a Resource Group name.", "resource_group"), <<>>)

handle_subscription(ss, session_id, user_message, env) ==
  LET typed == Strip(user_message)
      is_default == Lower(typed) = <<"d","e","f","a","u","l","t">>
      sub_id == IF is_default THEN env ELSE typed
  IN IF is_default /\ sub_id = <<>>
       THEN Result(ss, ChatResponse(session_id, "No default subscription configured. Please enter your Subscription ID:", "subscription"), <<>>)
     ELSE IF Len(sub_id) < 32
       THEN Result(ss, ChatResponse(session_id, "That doesn't look like a valid Subscription ID.", "subscription"), <<>>)
     ELSE Result(set_state(set_subscription(ss, session_id, sub_id), session_id, "resource_group"),
                 ChatResponse(session_id, "Enter a Resource Group name.", "resource_group"), <<>>)

\* handle_resource_group that looks for the prefix "new:" in lower case only
handle_resource_group_exact_prefix(ss, session_id, user_message) ==
  LET rg_input == Strip(user_message)
      create_new == StartsWith(rg_input, <<"n","e","w",":">>)
      rg_name == IF create_new THEN Strip(SubSeq(rg_input, 5, Len(rg_input))) ELSE rg_input
  IN IF rg_name = <<>> \/ Len(rg_name) < 1
       THEN Result(ss, ChatResponse(session_id, "Please enter a valid Resource Group name:", "resource_group"), <<>>)
     ELSE Result(set_state(set_resource_group(ss, session_id, rg_name, create_new), session_id, "region"),
                 ChatResponse(session_id, "Select an Azure region:", "region"), <<>>)

handle_resource_group(ss, session_id, user_message) ==
  LET rg_input == Strip(user_message)
      create_new == StartsWith(Lower(rg_input), <<"n","e","w",":">>)
      rg_name == IF create_new THEN Strip(SubSeq(rg_input, 5, Len(rg_input))) ELSE rg_input
  IN IF rg_name = <<>> \/ Len(rg_name) < 1
       THEN Result(ss, ChatResponse(session_id, "Please enter a valid Resource Group name:", "resource_group"), <<>>)
     ELSE Result(set_state(set_resource_group(ss, session_id, rg_name, create_new), session_id, "region"),
                 ChatResponse(session_id, "Select an Azure region:", "region"), <<>>)

\* move_to_confirmation that writes the session's owner into the config
move_to_confirmation_names_owner(ss, session_id) ==
  LET session == ss[session_id]
      config == DictSet(build_config_from_answers(session.resource_type, session.collected_params), "owner",
                        DictGet(session.collected_params, "_username", "None"))
      s1 == set_state(set_config(ss, session_id, config), session_id, "confirmation")
  IN Result(s1, ChatResponse(session_id, "Configuration Summary", "confirmation"), <<>>)

move_to_confirmation(ss, session_id) ==
  LET session == ss[session_id]
      config == build_config_from_answers(session.resource_type, session.collected_params)
      s1 == set_state(set_config(ss, session_id, config), session_id, "confirmation")
  IN Result(s1, ChatResponse(session_id, "Configuration Summary", "confirmation"), <<>>)

\* get_next_config_question that moves to the confirmation before the last question
get_next_config_question_stops_early(ss, session_id) ==
  LET session == ss[session_id]
      questions == get_questions_for_resource(session.resource_type)
      current_index == DictGet(session.collected_params, "_question_index", 0)
  IN IF current_index >= Len(questions) - 1
       THEN move_to_confirmation(ss, session_id)
     ELSE Result(ss, [ChatResponse(session_id, "question", "resource_config") EXCEPT !.question = questions[current_index + 1].key], <<>>)

get_next_config_question(ss, session_id) ==
  LET session == ss[session_id]
      questions == get_questions_for_resource(session.resource_type)
      current_index == DictGet(session.collected_params, "_question_index", 0)
  IN IF current_index >= Len(questions)
       THEN move_to_confirmation(ss, session_id)
     ELSE Result(ss, [ChatResponse(session_id, "question", "resource_config") EXCEPT !.question = questions[current_index + 1].key], <<>>)

\* handle_region that stores the region before it has checked it
handle_region_stores_first(ss, session_id, user_message) ==
  LET typed == Lower(Strip(user_message))
      idx == IF IsDigit(typed) THEN ToInt(typed) - 1 ELSE -1
      region == IF IsDigit(typed) /\ 0 <= idx /\ idx < Len(PopularRegions) THEN PopularRegions[idx + 1] ELSE typed
      stored == set_region(ss, session_id, region)
  IN IF ~InSeq(region, AZURE_REGIONS)
       THEN Result(stored, ChatResponse(session_id, "is not a recognized Azure region.", "region"), <<>>)
     ELSE LET s1 == set_state(stored, session_id, "resource_config")
              s2 == [s1 EXCEPT ![session_id].collected_params = DictSet(@, "_question_index", 0)]
          IN get_next_config_question(s2, session_id)

\* handle_region that stores RESOURCE_CONFIG and leaves it to the next message to see that no question is left
handle_region_waits_in_config(ss, session_id, user_message) ==
  LET typed == Lower(Strip(user_message))
      idx == IF IsDigit(typed) THEN ToInt(typed) - 1 ELSE -1
      region == IF IsDigit(typed) /\ 0 <= idx /\ idx < Len(PopularRegions) THEN PopularRegions[idx + 1] ELSE typed
  IN IF ~InSeq(region, AZURE_REGIONS)
       THEN Result(ss, ChatResponse(session_id, "is not a recognized Azure region.", "region"), <<>>)
     ELSE LET s1 == set_state(set_region(ss, session_id, region), session_id, "resource_config")
              s2 == [s1 EXCEPT ![session_id].collected_params = DictSet(@, "_question_index", 0)]
          IN IF Len(get_questions_for_resource(s2[session_id].resource_type)) = 0
               THEN Result(s2, ChatResponse(session_id, "question", "resource_config"), <<>>)
             ELSE get_next_config_question(s2, session_id)

handle_region(ss, session_id, user_message) ==
  LET typed == Lower(Strip(user_message))
      idx == IF IsDigit(typed) THEN ToInt(typed) - 1 ELSE -1
      region == IF IsDigit(typed) /\ 0 <= idx /\ idx < Len(PopularRegions) THEN PopularRegions[idx + 1] ELSE typed
  IN IF ~InSeq(region, AZURE_REGIONS)
       THEN Result(ss, ChatResponse(session_id, "is not a recognized Azure region.", "region"), <<>>)
     ELSE LET s1 == set_state(set_region(ss, session_id, region), session_id, "resource_config")
              s2 == [s1 EXCEPT ![session_id].collected_params = DictSet(@, "_question_index", 0)]
          IN get_next_config_question(s2, session_id)

\* handle_resource_config that steps the cursor back when it rejects an answer
handle_resource_config_steps_back(ss, session_id, user_message) ==
  LET session == ss[session_id]
      questions == get_questions_for_resource(session.resource_type)
      current_index == DictGet(session.collected_params, "_question_index", 0)
  IN IF current_index >= Len(questions)
       THEN move_to_confirmation(ss, session_id)
     ELSE LET question == questions[current_index + 1]
              answer == IF Strip(user_message) = <<>> /\ question.default # None THEN question.default ELSE user_message
              v == validate_answer(question, answer)
          IN IF ~v.ok
               THEN Result([ss EXCEPT ![session_id].collected_params = DictSet(@, "_question_index", current_index - 1)],
                           [ChatResponse(session_id, "Please try again:", "resource_config") EXCEPT !.question = question.key, !.detail = v.error], <<>>)
             ELSE LET s1 == [ss EXCEPT ![session_id].collected_params = DictSet(DictSet(@, question.key, v.value), "_question_index", current_index + 1)]
                  IN get_next_config_question(s1, session_id)

\* handle_resource_config that also files each accepted answer in config (update_config)
handle_resource_config_writes_config(ss, session_id, user_message) ==
  LET session == ss[session_id]
      questions == get_questions_for_resource(session.resource_type)
      current_index == DictGet(session.collected_params, "_question_index", 0)
  IN IF current_index >= Len(questions)
       THEN move_to_confirmation(ss, session_id)
     ELSE LET question == questions[current_index + 1]
              answer == IF Strip(user_message) = <<>> /\ question.default # None THEN question.default ELSE user_message
              v == validate_answer(question, answer)
          IN IF ~v.ok
               THEN Result(ss, [ChatResponse(session_id, "Please try again:", "resource_config") EXCEPT !.question = question.key, !.detail = v.error], <<>>)
             ELSE LET s1 == [ss EXCEPT ![session_id].collected_params = DictSet(DictSet(@, question.key, v.value), "_question_index", current_index + 1),
                                       ![session_id].config = DictSet(@, question.key, v.value)]
                  IN get_next_config_question(s1, session_id)

\* handle_resource_config that moves the cursor on by two after an accepted answer
handle_resource_config_skips_question(ss, session_id, user_message) ==
  LET session == ss[session_id]
      questions == get_questions_for_resource(session.resource_type)
      current_index == DictGet(session.collected_params, "_question_index", 0)
  IN IF current_index >= Len(questions)
       THEN move_to_confirmation(ss, session_id)
     ELSE LET question == questions[current_index + 1]
              answer == IF Strip(user_message) = <<>> /\ question.default # None THEN question.default ELSE user_message
              v == validate_answer(question, answer)
          IN IF ~v.ok
               THEN Result(ss, [ChatResponse(session_id, "Please try again:", "resource_config") EXCEPT !.question = question.key, !.detail = v.error], <<>>)
             ELSE LET s1 == [ss EXCEPT ![session_id].collected_params = DictSet(DictSet(@, question.key, v.value), "_question_index", current_index + 2)]
                  IN get_next_config_question(s1, session_id)

handle_resource_config(ss, session_id, user_message) ==
  LET session == ss[session_id]
      questions == get_questions_for_resource(session.resource_type)
      current_index == DictGet(session.collected_params, "_question_index", 0)
  IN IF current_index >= Len(questions)
       THEN move_to_confirmation(ss, session_id)
     ELSE LET question == questions[current_index + 1]
              answer == IF Strip(user_message) = <<>> /\ question.default # None THEN question.default ELSE user_message
              v == validate_answer(question, answer)
          IN IF ~v.ok
               THEN Result(ss, [ChatResponse(session_id, "Please try again:", "resource_config") EXCEPT !.question = question.key, !.detail = v.error], <<>>)
             ELSE LET s1 == [ss EXCEPT ![session_id].collected_params = DictSet(DictSet(@, question.key, v.value), "_question_index", current_index + 1)]
                  IN get_next_config_question(s1, session_id)

\* handle_confirmation whose edit branch resets the cursor but keeps the collected answers
handle_confirmation_keeps_answers(ss, session_id, user_message) ==
  LET choice == Lower(Strip(user_message))
      session == ss[session_id]
  IN IF choice \in {<<"y","e","s">>, <<"y">>, <<"c","r","e","a","t","e">>, <<"p","r","o","c","e","e","d">>}
       THEN Result(set_state(set_execution_method(ss, session_id, "azure_sdk"), session_id, "execution_method"),
                   ChatResponse(session_id, "Creating resource via Azure SDK...", "creating"), <<>>)
     ELSE IF choice \in {<<"t","e","r","r","a","f","o","r","m">>, <<"t","f">>}
       THEN LET terraform_code == generate_terraform(session.resource_type, session.resource_group, session.region, session.config, session.create_new_rg)
            IN Result(set_state(ss, session_id, "completed"),
                      [ChatResponse(session_id, "Here's your Terraform configuration:", "completed") EXCEPT !.terraform_code = <<terraform_code>>],
                      <<Call("generate_terraform", session, "ok", "None")>>)
     ELSE IF choice \in {<<"n","o">>, <<"n">>, <<"c","a","n","c","e","l">>}
       THEN Result(reset_session(ss, session_id), ChatResponse(session_id, "Resource creation cancelled.", "resource_selection"), <<>>)
     ELSE IF choice \in {<<"e","d","i","t">>, <<"m","o","d","i","f","y">>, <<"c","h","a","n","g","e">>}
       THEN LET s1 == [ss EXCEPT ![session_id].collected_params = DictSet(@, "_question_index", 0)]
            IN get_next_config_question(set_state(s1, session_id, "resource_config"), session_id)
     ELSE Result(ss, ChatResponse(session_id, "Please respond with:", "confirmation"), <<>>)

handle_confirmation(ss, session_id, user_message) ==
  LET choice == Lower(Strip(user_message))
      session == ss[session_id]
  IN IF choice \in {<<"y","e","s">>, <<"y">>, <<"c","r","e","a","t","e">>, <<"p","r","o","c","e","e","d">>}
       THEN Result(set_state(set_execution_method(ss, session_id, "azure_sdk"), session_id, "execution_method"),
                   ChatResponse(session_id, "Creating resource via Azure SDK...", "creating"), <<>>)
     ELSE IF choice \in {<<"t","e","r","r","a","f","o","r","m">>, <<"t","f">>}
       THEN LET terraform_code == generate_terraform(session.resource_type, session.resource_group, session.region, session.config, session.create_new_rg)
            IN Result(set_state(ss, session_id, "completed"),
                      [ChatResponse(session_id, "Here's your Terraform configuration:", "completed") EXCEPT !.terraform_code = <<terraform_code>>],
                      <<Call("generate_terraform", session, "ok", "None")>>)
     ELSE IF choice \in {<<"n","o">>, <<"n">>, <<"c","a","n","c","e","l">>}
       THEN Result(reset_session(ss, session_id), ChatResponse(session_id, "Resource creation cancelled.", "resource_selection"), <<>>)
     ELSE IF choice \in {<<"e","d","i","t">>, <<"m","o","d","i","f","y">>, <<"c","h","a","n","g","e">>}
       THEN LET s1 == [ss EXCEPT ![session_id].collected_params = DictSet(EmptyDict, "_question_index", 0)]
            IN get_next_config_question(set_state(s1, session_id, "resource_config"), session_id)
     ELSE Result(ss, ChatResponse(session_id, "Please respond with:", "confirmation"), <<>>)

\* handle_execution_method that creates the resource group outside its try block
handle_execution_method_unguarded_group(ss, session_id, user_message, outcome) ==
  LET session == ss[session_id]
      rg_calls == IF session.create_new_rg
                    THEN <<Call("create_resource_group", session, IF outcome.rg_raises THEN "raise" ELSE "ok", IF outcome.rg_raises THEN outcome.text ELSE "None")>>
                  ELSE <<>>
      resource_call == Call("create_azure_resource", session, outcome.kind, IF outcome.kind = "success" THEN "None" ELSE outcome.text)
      failed(cs, message) == Result(set_state(ss, session_id, "error"), [ChatResponse(session_id, message, "error") EXCEPT !.error = outcome.text], cs)
  IN IF session.create_new_rg /\ outcome.rg_raises
       THEN Result(ss, HttpResponse("chat", 500, session_id, "Internal Server Error"), rg_calls)
     ELSE IF outcome.kind = "raise"
       THEN failed(rg_calls \o <<resource_call>>, "An error occurred")
     ELSE IF outcome.kind = "success"
       THEN Result(set_state(ss, session_id, "completed"),
                   [ChatResponse(session_id, "Resource Created Successfully!", "completed") EXCEPT !.created_resource = <<resource_call.args>>],
                   rg_calls \o <<resource_call>>)
     ELSE failed(rg_calls \o <<resource_call>>, "Resource Creation Failed")

\* handle_execution_method that creates the resource group whatever the session's flag says
handle_execution_method_always_creates_group(ss, session_id, user_message, outcome) ==
  LET session == ss[session_id]
      rg_calls == <<Call("create_resource_group", session, IF outcome.rg_raises THEN "raise" ELSE "ok", IF outcome.rg_raises THEN outcome.text ELSE "None")>>
      resource_call == Call("create_azure_resource", session, outcome.kind, IF outcome.kind = "success" THEN "None" ELSE outcome.text)
      failed(cs, message) == Result(set_state(ss, session_id, "error"), [ChatResponse(session_id, message, "error") EXCEPT !.error = outcome.text], cs)
  IN IF outcome.rg_raises
       THEN failed(rg_calls, "An error occurred")
     ELSE IF outcome.kind = "raise"
       THEN failed(rg_calls \o <<resource_call>>, "An error occurred")
     ELSE IF outcome.kind = "success"
       THEN Result(set_state(ss, session_id, "completed"),
                   [ChatResponse(session_id, "Resource Created Successfully!", "completed") EXCEPT !.created_resource = <<resource_call.args>>],
                   rg_calls \o <<resource_call>>)
     ELSE failed(rg_calls \o <<resource_call>>, "Resource Creation Failed")

handle_execution_method(ss, session_id, user_message, outcome) ==
  LET session == ss[session_id]
      rg_calls == IF session.create_new_rg
                    THEN <<Call("create_resource_group", session, IF outcome.rg_raises THEN "raise" ELSE "ok", IF outcome.rg_raises THEN outcome.text ELSE "None")>>
                  ELSE <<>>
      resource_call == Call("create_azure_resource", session, outcome.kind, IF outcome.kind = "success" THEN "None" ELSE outcome.text)
      failed(cs, message) == Result(set_state(ss, session_id, "error"), [ChatResponse(session_id, message, "error") EXCEPT !.error = outcome.text], cs)
  IN IF session.create_new_rg /\ outcome.rg_raises
       THEN failed(rg_calls, "An error occurred")
     ELSE IF outcome.kind = "raise"
       THEN failed(rg_calls \o <<resource_call>>, "An error occurred")
     ELSE IF outcome.kind = "success"
       THEN Result(set_state(ss, session_id, "completed"),
                   [ChatResponse(session_id, "Resource Created Successfully!", "completed") EXCEPT !.created_resource = <<resource_call.args>>],
                   rg_calls \o <<resource_call>>)
     ELSE failed(rg_calls \o <<resource_call>>, "Resource Creation Failed")

\* handle_completed_state that forgets the region when it reminds the user
handle_completed_state_drops_region(ss, session_id, user_message) ==
  IF Lower(user_message) \in {<<"r","e","s","t","a","r","t">>, <<"n","e","w">>, <<"a","n","o","t","h","e","r">>, <<"r","e","s","e","t">>}
    THEN Result(reset_session(ss, session_id), ChatResponse(session_id, "Let's create another resource!", "resource_selection"), <<>>)
  ELSE Result(set_region(ss, session_id, None), ChatResponse(session_id, "Resource creation complete!", "completed"), <<>>)

\* handle_completed_state that generates the Terraform code again when asked for it
handle_completed_state_generates_again(ss, session_id, user_message) ==
  IF Lower(user_message) \in {<<"r","e","s","t","a","r","t">>, <<"n","e","w">>, <<"a","n","o","t","h","e","r">>, <<"r","e","s","e","t">>}
    THEN Result(reset_session(ss, session_id), ChatResponse(session_id, "Let's create another resource!", "resource_selection"), <<>>)
  ELSE IF Lower(user_message) \in {<<"t","e","r","r","a","f","o","r","m">>, <<"t","f">>}
    THEN handle_confirmation(ss, session_id, user_message)
  ELSE Result(ss, ChatResponse(session_id, "Resource creation complete!", "completed"), <<>>)

handle_completed_state(ss, session_id, user_message) ==
  IF Lower(user_message) \in {<<"r","e","s","t","a","r","t">>, <<"n","e","w">>, <<"a","n","o","t","h","e","r">>, <<"r","e","s","e","t">>}
    THEN Result(reset_session(ss, session_id), ChatResponse(session_id, "Let's create another resource!", "resource_selection"), <<>>)
  ELSE Result(ss, ChatResponse(session_id, "Resource creation complete!", "completed"), <<>>)

\* process_message that runs the provisioning step again for a session in ERROR
process_message_retries_on_error(ss, session_id, user_message, current_state, env, outcome) ==
  IF Lower(user_message) \in {<<"r","e","s","t","a","r","t">>, <<"r","e","s","e","t">>, <<"s","t","a","r","t"," ","o","v","e","r">>, <<"n","e","w">>}
    THEN Result(reset_session(ss, session_id), ChatResponse(session_id, "Session reset. ", "resource_selection"), <<>>)
  ELSE CASE current_state = "initial" -> handle_initial_state(ss, session_id)
         [] current_state = "resource_selection" -> handle_resource_selection(ss, session_id, user_message)
         [] current_state = "subscription" -> handle_subscription(ss, session_id, user_message, env)
         [] current_state = "resource_group" -> handle_resource_group(ss, session_id, user_message)
         [] current_state = "region" -> handle_region(ss, session_id, user_message)
         [] current_state = "resource_config" -> handle_resource_config(ss, session_id, user_message)
         [] current_state = "confirmation" -> handle_confirmation(ss, session_id, user_message)
         [] current_state \in {"execution_method", "error"} -> handle_execution_method(ss, session_id, user_message, outcome)
         [] current_state = "completed" -> handle_completed_state(ss, session_id, user_message)
         [] OTHER -> Result(ss, ChatResponse(session_id, "I'm not sure how to proceed. Type 'restart' to begin again.", current_state), <<>>)

process_message(ss, session_id, user_message, current_state, env, outcome) ==
  IF Lower(user_message) \in {<<"r","e","s","t","a","r","t">>, <<"r","e","s","e","t">>, <<"s","t","a","r","t"," ","o","v","e","r">>, <<"n","e","w">>}
    THEN Result(reset_session(ss, session_id), ChatResponse(session_id, "Session reset. ", "resource_selection"), <<>>)
  ELSE CASE current_state = "initial" -> handle_initial_state(ss, session_id)
         [] current_state = "resource_selection" -> handle_resource_selection(ss, session_id, user_message)
         [] current_state = "subscription" -> handle_subscription(ss, session_id, user_message, env)
         [] current_state = "resource_group" -> handle_resource_group(ss, session_id, user_message)
         [] current_state = "region" -> handle_region(ss, session_id, user_message)
         [] current_state = "resource_config" -> handle_resource_config(ss, session_id, user_message)
         [] current_state = "confirmation" -> handle_confirmation(ss, session_id, user_message)
         [] current_state = "execution_method" -> handle_execution_method(ss, session_id, user_message, outcome)
         [] current_state = "completed" -> handle_completed_state(ss, session_id, user_message)
         [] OTHER -> Result(ss, ChatResponse(session_id, "I'm not sure how to proceed. Type 'restart' to begin again.", current_state), <<>>)

\* ------------------------------------------------------------------ endpoints

\* POST /api/chat, as a function of the request and of what the collaborators do
chat_result(ss, session_id, message, env, outcome) ==
  LET s0 == get_or_create_session(ss, session_id)
      current_state == s0[session_id].state
      user_message == Strip(message)
      s1 == add_message(s0, session_id, "user")
      r == process_message(s1, session_id, user_message, current_state, env, outcome)
  IN Result(add_message(r.sessions, session_id, "assistant"), r.response, r.calls)

\* Collaborator behaviours that matter for a request
OutcomesFor(ss, session_id) ==
  IF session_id \in DOMAIN ss /\ ss[session_id].state = "execution_method" THEN Outcomes
  ELSE {[rg_raises |-> FALSE, kind |-> "success", text |-> "QuotaExceeded"]}

\* POST /api/chat: what one request does to the manager
chat_request(session_id, message) ==
  /\ (session_id \in DOMAIN sessions => Len(sessions[session_id].messages) + 2 <= (IF script = NoScript THEN MaxMessages ELSE MaxScripted))
  /\ \E outcome \in OutcomesFor(sessions, session_id) :
       LET r == chat_result(sessions, session_id, message, env_subscription, outcome)
       IN /\ sessions' = r.sessions
          /\ response' = r.response
          /\ calls' = r.calls
  /\ UNCHANGED env_subscription

\* POST /api/chat
chat(session_id, message) ==
  /\ chat_request(session_id, message)
  /\ UNCHANGED <<probe, script, tasks, users, tokens>>

\* POST /api/session
create_session(session_id, current_user) ==
  /\ session_id \notin DOMAIN sessions
  /\ LET s1 == DictSet(sessions, session_id, NewSession)
     IN sessions' = IF current_user # NoUser
                      THEN [s1 EXCEPT ![session_id].collected_params = DictSet(DictSet(@, "_user_id", current_user.user_id), "_username", current_user.username)]
                    ELSE s1
  /\ response' = HttpResponse("create_session", 200, session_id, "Session created. How can I help you create Azure resources today?")
  /\ calls' = <<>>
  /\ UNCHANGED <<env_subscription, probe, script, tasks, users, tokens>>

\* ConversationManager.delete_session that returns True also for an id it does not hold
delete_session_result_always_true(ss, session_id) ==
  [sessions |-> [x \in (DOMAIN ss) \ {session_id} |-> ss[x]], deleted |-> TRUE]

\* ConversationManager.delete_session
delete_session_result(ss, session_id) ==
  IF session_id \in DOMAIN ss THEN [sessions |-> [x \in (DOMAIN ss) \ {session_id} |-> ss[x]], deleted |-> TRUE]
  ELSE [sessions |-> ss, deleted |-> FALSE]

\* DELETE /api/session/{session_id}
delete_session(session_id) ==
  /\ LET r == delete_session_result(sessions, session_id)
     IN /\ sessions' = r.sessions
        /\ response' = IF r.deleted THEN HttpResponse("delete_session", 200, session_id, "deleted")
                       ELSE HttpResponse("delete_session", 404, session_id, "Session not found")
  /\ calls' = <<>>
  /\ UNCHANGED <<env_subscription, probe, script, tasks, users, tokens>>

Init ==
  /\ sessions = EmptyDict
  /\ env_subscription \in EnvSubscriptions
  /\ response = NoResponse
  /\ calls = <<>>
  /\ probe = NoProbe
  /\ script = NoScript
  /\ tasks = NoTasks
  /\ users = DefaultUsers
  /\ tokens = NoTokens

Next ==
  \/ \E session_id \in SessionIds, message \in Inputs : chat(session_id, message)
  \/ \E session_id \in SessionIds, current_user \in Principals : create_session(session_id, current_user)
  \/ \E session_id \in SessionIds : delete_session(session_id)

Spec == Init /\ [][Next]_vars

\* ------------------------------------------------------------------ properties

\* The question cursor as the handlers read it
Cursor(session) == DictGet(session.collected_params, "_question_index", 0)

\* The replies of the three places that call reset_session
ResetReplies == {"Session reset. ", "Resource creation cancelled.", "Let's create another resource!"}

\* The replies that reject an input and ask again
RejectionReplies ==
  {"I didn't understand that. Please select a resource type:",
   "No default subscription configured. Please enter your Subscription ID:",
   "That doesn't look like a valid Subscription ID.",
   "Please enter a valid Resource Group name:",
   "is not a recognized Azure region.",
   "Please try again:"}

\* Everything of a session but its message log
SessionData(session) == [session EXCEPT !.messages = <<>>]

IsPrefix(a, b) == Len(a) <= Len(b) /\ SubSeq(b, 1, Len(a)) = a

\* The last request was a chat message that ran the provisioning step
ProvisioningRan == calls # <<>> /\ calls[1].op \in {"create_resource_group", "create_azure_resource"}

\* C1: after a restart keyword has been processed (the reply "Session reset."),
\* the session is stored in RESOURCE_SELECTION with collected_params, config and
\* resource_type cleared.
C1_RestartLeavesResourceSelection ==
  (response.endpoint = "chat" /\ response.message = "Session reset. ") =>
    LET session == sessions[response.session_id]
    IN /\ session.state = "resource_selection"
       /\ session.collected_params = EmptyDict
       /\ session.config = EmptyDict
       /\ session.resource_type = NoResourceType

\* The edges of the linear order and its one branch
StateEdges ==
  {<<"initial", "resource_selection">>, <<"resource_selection", "subscription">>,
   <<"subscription", "resource_group">>, <<"resource_group", "region">>,
   <<"region", "resource_config">>, <<"region", "confirmation">>,
   <<"resource_config", "confirmation">>, <<"confirmation", "execution_method">>,
   <<"confirmation", "completed">>, <<"confirmation", "resource_config">>,
   <<"execution_method", "completed">>, <<"execution_method", "error">>}

\* C2: apart from the resets (restart keyword, cancel), whenever a request changes
\* the stored state of a session, the change is one of the edges of StateEdges.
C2_StateChangesFollowEdges ==
  [][\A s \in (DOMAIN sessions) \cap (DOMAIN sessions') :
       sessions'[s].state # sessions[s].state =>
         \/ <<sessions[s].state, sessions'[s].state>> \in StateEdges
         \/ response'.message \in ResetReplies /\ sessions'[s].state = "initial"]_vars

\* C2 witness: a session that went all the way to COMPLETED through the provisioning step
C2_Witness == \E s \in DOMAIN sessions : sessions[s].state = "completed" /\ response.message = "Resource Created Successfully!"

\* C3: in every session the cursor is between 0 and the number of questions of
\* the session's resource type.
C3_CursorInRange ==
  \A s \in DOMAIN sessions :
    /\ 0 <= Cursor(sessions[s])
    /\ Cursor(sessions[s]) <= Len(get_questions_for_resource(sessions[s].resource_type))

\* C3 witness: an answer was rejected at a question other than the first, the cursor staying where it was
C3_Witness ==
  \E s \in DOMAIN sessions :
    /\ sessions[s].state = "resource_config"
    /\ response.message = "Please try again:"
    /\ Cursor(sessions[s]) > 0

\* C4: a session in SUBSCRIPTION or any later state has a resource type.
C4_ResourceTypeSetAfterSelection ==
  \A s \in DOMAIN sessions :
    sessions[s].state \in {"subscription", "resource_group", "region", "resource_config", "confirmation", "execution_method", "creating", "completed", "error"}
      => sessions[s].resource_type \in ResourceType

\* C4 witness: a session that has just accepted a resource selection
C4_Witness == \E s \in DOMAIN sessions : sessions[s].state = "subscription" /\ sessions[s].resource_type = "cosmosdb"

\* C5: config is empty in the states before RESOURCE_CONFIG, a request changes it
\* only by entering CONFIRMATION with the Config Assembler's result for the
\* collected answers, or by clearing it (reset); so it is empty until the first
\* time CONFIRMATION is entered.
C5_ConfigWrittenOnlyOnConfirmation ==
  [][\A s \in DOMAIN sessions' :
       LET new == sessions'[s]
           old == IF s \in DOMAIN sessions THEN sessions[s] ELSE NewSession
       IN /\ new.state \in {"initial", "resource_selection", "subscription", "resource_group", "region"} => new.config = EmptyDict
          /\ new.config # old.config =>
               \/ new.config = EmptyDict
               \/ /\ new.state = "confirmation"
                  /\ new.config = build_config_from_answers(new.resource_type, new.collected_params)]_vars

\* C5 witness: a session in CONFIRMATION with its assembled config
C5_Witness == \E s \in DOMAIN sessions : sessions[s].state = "confirmation" /\ sessions[s].config # EmptyDict /\ response.message = "Configuration Summary"

\* C6: the message log of a session only grows: the log before a request is a
\* prefix of the log after it.
C6_MessagesAppendOnly ==
  [][\A s \in (DOMAIN sessions) \cap (DOMAIN sessions') :
       response'.endpoint = "chat" => IsPrefix(sessions[s].messages, sessions'[s].messages)]_vars

\* C7: a request that is answered with a rejection leaves the session's state and
\* data (all but the message log) as they were, replies with that same state, and
\* does not put the session in ERROR.
C7_RejectionChangesNothing ==
  [][(response'.endpoint = "chat" /\ response'.message \in RejectionReplies) =>
       LET s == response'.session_id
       IN /\ s \in DOMAIN sessions
          /\ SessionData(sessions'[s]) = SessionData(sessions[s])
          /\ response'.state = sessions[s].state
          /\ sessions'[s].state # "error"]_vars

\* C7 witness: a rejected answer to a configuration question
C7_Witness ==
  \E s \in DOMAIN sessions :
    /\ response.message = "Please try again:"
    /\ response.detail # NoError
    /\ sessions[s].state = "resource_config"

\* C8: when the affirmative reply at CONFIRMATION has been processed, the
\* execution method is set, the provisioning collaborator has been invoked and the
\* session is in COMPLETED or ERROR, with no further message.
C8_AffirmativeHandsOffToExecution ==
  (response.endpoint = "chat" /\ response.message = "Creating resource via Azure SDK...") =>
    LET session == sessions[response.session_id]
    IN /\ session.execution_method = "azure_sdk"
       /\ \E i \in 1..Len(calls) : calls[i].op = "create_azure_resource"
       /\ session.state \in {"completed", "error"}

\* C9: once the direct-API path is chosen (stored state EXECUTION_METHOD), a chat
\* message either records the provisioning outcome or leaves the session's state
\* and data as they were.
C9_CommittedOnceCreating ==
  [][\A s \in DOMAIN sessions :
       (sessions[s].state = "execution_method" /\ response'.endpoint = "chat") =>
         /\ s \in DOMAIN sessions'
         /\ \/ sessions'[s].state \in {"completed", "error"}
            \/ SessionData(sessions'[s]) = SessionData(sessions[s])]_vars

\* C10: when the provisioning step has run, the request is answered by a
\* ChatResponse (no exception leaves the handler) and the session is in COMPLETED
\* if the collaborator reported success, in ERROR with the collaborator's error
\* string in the reply if it reported a failure, and in ERROR with the exception's
\* text in the reply if resource-group creation or the collaborator raised.
C10_ProvisioningOutcomeMapping ==
  ProvisioningRan =>
    LET last == calls[Len(calls)]
        session == sessions[response.session_id]
    IN /\ response.endpoint = "chat" /\ response.status = 200
       /\ last.outcome \in {"success", "failure", "raise"}
       /\ last.outcome = "success" => session.state = "completed" /\ response.state = "completed" /\ response.error = "None"
       /\ last.outcome = "failure" => last.op = "create_azure_resource" /\ session.state = "error" /\ response.state = "error" /\ response.error = last.error
       /\ last.outcome = "raise" => session.state = "error" /\ response.state = "error" /\ response.error = last.error

\* C10 witness: resource-group creation raised and the session went to ERROR
C10_Witness ==
  /\ ProvisioningRan
  /\ calls[Len(calls)].op = "create_resource_group"
  /\ calls[Len(calls)].outcome = "raise"
  /\ response.error = "AuthorizationFailed"


\* The calls of a request, in order, by operation
Ops(cs) == [i \in 1..Len(cs) |-> cs[i].op]

\* How often a request called the provisioning collaborator
Provisionings(cs) == Cardinality({i \in 1..Len(cs) : cs[i].op = "create_azure_resource"})

C12_GroupCreatedFirstWhenFlagged ==
  [][response'.endpoint = "chat" =>
       LET s == response'.session_id
           ran == s \in DOMAIN sessions /\ sessions[s].state = "execution_method" /\ response'.message # "Session reset. "
       IN /\ ran /\ sessions[s].create_new_rg =>
               \/ Ops(calls') = <<"create_resource_group", "create_azure_resource">> /\ calls'[1].outcome = "ok"
               \/ Ops(calls') = <<"create_resource_group">> /\ calls'[1].outcome = "raise"
          /\ ran /\ ~sessions[s].create_new_rg => Ops(calls') = <<"create_azure_resource">>
          /\ ~ran => \A i \in 1..Len(calls') : calls'[i].op # "create_resource_group"]_vars

\* C12 witness: a new resource group was created and then the resource
C12_Witness ==
  /\ Ops(calls) = <<"create_resource_group", "create_azure_resource">>
  /\ calls[1].outcome = "ok"
  /\ calls[2].outcome = "success"

\* Some spellings of the inputs of the confirmation stage
TerraformWords == {<<"t","e","r","r","a","f","o","r","m">>, <<"T","F">>, <<" ","T","f"," ">>}

EditWords == {<<"e","d","i","t">>, <<"M","o","d","i","f","y">>, <<" ","C","H","A","N","G","E"," ">>}

CancelWords == {<<"n","o">>, <<"N">>, <<" ","C","a","n","c","e","l"," ">>}

\* C13: for a session in CONFIRMATION, the input "terraform" or "tf" in any case
\* calls the code generator with the session's resource_type, resource_group,
\* region, config and create_new_rg, returns its output in the reply, calls no
\* provisioning collaborator and stores COMPLETED; a restart keyword sent next
\* stores RESOURCE_SELECTION.
C13_TerraformPath ==
  \A s \in DOMAIN sessions : sessions[s].state = "confirmation" =>
    \A message \in TerraformWords, outcome \in OutcomesFor(sessions, s) :
      LET session == sessions[s]
          r == chat_result(sessions, s, message, env_subscription, outcome)
          code == generate_terraform(session.resource_type, session.resource_group, session.region, session.config, session.create_new_rg)
          again == chat_result(r.sessions, s, <<"r","e","s","t","a","r","t">>, env_subscription, outcome)
      IN /\ Ops(r.calls) = <<"generate_terraform">>
         /\ r.calls[1].args = Call("generate_terraform", session, "ok", "None").args
         /\ r.response.terraform_code = <<code>>
         /\ r.response.state = "completed"
         /\ r.sessions[s].state = "completed"
         /\ again.sessions[s].state = "resource_selection"

\* C14: for a session in CONFIRMATION, the input "edit", "modify" or "change" in
\* any case stores RESOURCE_CONFIG, replaces collected_params by the cursor 0
\* alone, replies with the first question of the session's resource type, calls no
\* collaborator and leaves resource_type, subscription_id, resource_group,
\* create_new_rg and region as they were.
C14_EditRestartsQuestions ==
  \A s \in DOMAIN sessions : sessions[s].state = "confirmation" =>
    \A message \in EditWords, outcome \in OutcomesFor(sessions, s) :
      LET session == sessions[s]
          r == chat_result(sessions, s, message, env_subscription, outcome)
          new == r.sessions[s]
      IN /\ new.state = "resource_config"
         /\ new.collected_params = DictSet(EmptyDict, "_question_index", 0)
         /\ r.response.state = "resource_config"
         /\ r.response.message = "question"
         /\ r.response.question = get_questions_for_resource(session.resource_type)[1].key
         /\ r.calls = <<>>
         /\ new.resource_type = session.resource_type
         /\ new.subscription_id = session.subscription_id
         /\ new.resource_group = session.resource_group
         /\ new.create_new_rg = session.create_new_rg
         /\ new.region = session.region

\* C14 witness: a session sent back from CONFIRMATION to its first question, its answers gone
C14_Witness ==
  \E s \in DOMAIN sessions :
    /\ sessions[s].state = "resource_config"
    /\ sessions[s].config # EmptyDict
    /\ sessions[s].collected_params = DictSet(EmptyDict, "_question_index", 0)
    /\ response.question = "name"

\* C15: for a session in CONFIRMATION, the input "no", "n" or "cancel" in any case
\* clears the session's collected answers, config, resource type and location
\* parameters, stores RESOURCE_SELECTION and calls no collaborator.
C15_CancelResets ==
  \A s \in DOMAIN sessions : sessions[s].state = "confirmation" =>
    \A message \in CancelWords, outcome \in OutcomesFor(sessions, s) :
      LET r == chat_result(sessions, s, message, env_subscription, outcome)
          new == r.sessions[s]
      IN /\ r.calls = <<>>
         /\ SessionData(new) = SessionData([NewSession EXCEPT !.state = new.state])
         /\ new.state = "resource_selection"

\* ------------------------------------------------------------------ direct calls of ResourceFlows

\* How often a direct call is made on the same objects
Repeats == 2

\* Raw inputs handed to validate_answer
RawAnswers == { <<>>, <<"1">>, <<"2">>, <<"3">>, <<"0">>, <<"h","o","t">>, <<" ","C","O","O","L"," ">>, <<"1","5">>, <<"9","9">>, <<"w","e","b","0","1">>, <<"R","o","o","t">> }

\* Resource types handed to build_config_from_answers: every member of the enum, and None
AssembledTypes == ResourceType \cup {NoResourceType}

\* The resource types build_config_from_answers has a branch for
BranchTypes == {"vm", "vnet", "storage", "aks", "postgresql", "mysql", "sqldb", "cosmosdb"}

\* The keys of the questions of a resource type
QuestionKeys(resource_type) ==
  {get_questions_for_resource(resource_type)[i].key : i \in 1..Len(get_questions_for_resource(resource_type))}

\* The question of a resource type that has the given key
QuestionOf(resource_type, key) ==
  LET questions == get_questions_for_resource(resource_type)
  IN questions[CHOOSE i \in 1..Len(questions) : questions[i].key = key]

\* Raw inputs tried in turn to get a stored answer for a question
SampleRaws == << <<"2">>, <<"w","e","b","0","1">>, <<"1","0",".","1",".","0",".","0","/","1","6">>, <<"6","4">>, <<"1">> >>

\* A value handle_resource_config stores for a question: that of the first sample input the validator accepts
SampleAnswer(question) ==
  LET accepted == {i \in 1..Len(SampleRaws) : validate_answer(question, SampleRaws[i]).ok}
  IN validate_answer(question, SampleRaws[CHOOSE i \in accepted : \A j \in accepted : i <= j]).value

\* collected_params holding answers for the given keys, and the cursor if asked for
AnswersFor(resource_type, keys) ==
  [k \in keys |-> IF k = "_question_index" THEN Len(get_questions_for_resource(resource_type))
                  ELSE SampleAnswer(QuestionOf(resource_type, k))]

\* validate_answer that keeps the trimmed input in the question as its new default
validate_answer_call_stores_answer(question, answer) ==
  [question |-> [question EXCEPT !.default = Strip(answer)], result |-> validate_answer(question, answer)]

\* ResourceFlows.validate_answer as its caller sees it: the question dict it was
\* handed (by reference, only read) after the call, and the returned triple
validate_answer_call(question, answer) ==
  [question |-> question, result |-> validate_answer(question, answer)]

\* build_config_from_answers that fills the missing name into the answers (setdefault for get)
build_config_call_fills_answers(resource_type, answers) ==
  [answers |-> DictSet(answers, "name", DictGet(answers, "name", None)),
   result |-> build_config_from_answers(resource_type, answers)]

\* ResourceFlows.build_config_from_answers as its caller sees it: the answers
\* dict it was handed (by reference, only read) after the call, and the returned dict
build_config_call(resource_type, answers) ==
  [answers |-> answers, result |-> build_config_from_answers(resource_type, answers)]

\* Raw inputs handed to parse_resource_selection
Selections ==
  { <<" ","V","i","r","t","u","a","l"," ","M","a","c","h","i","n","e"," ">>, <<"V","M">>, <<"s","t","o","r","a","g","e"," ","f","o","r"," ","m","y"," ","v","m">>, <<"k","u","b","e","r","n","e","t","e","s"," ","m","y","s","q","l">>, <<"d","a","t","a","b","a","s","e"," ","o","n"," ","a"," ","v","n","e","t">>,
    <<"d","a","t","a","b","a","s","e">>, <<"m","y"," ","d","b">>, <<"m","o","n","g","o","d","b">>, <<"d","o","c","u","m","e","n","t","d","b">>, <<"n","o","s","q","l">>, <<"c","o","s","m","o","s">>, <<"C","o","s","m","o","s"," ","D","B">>, <<"s","q","l"," ","s","e","r","v","e","r">>,
    <<"k","8","s">>, <<"b","l","o","b">>, <<"p","g","s","q","l">>, <<"n","e","t","w","o","r","k"," ","v","n">>, <<"h","e","l","l","o">>, <<>> }

\* The session map while ResourceFlows is called directly
FlowsSessions == [s \in SessionIds |-> NewSession]

\* Calls validate_answer on the probe's question: the first time on the question
\* of the registry, then on the same object as the call before left it
call_validate_answer ==
  /\ probe.fn = "validate_answer"
  /\ Len(probe.results) < Repeats
  /\ LET question == IF probe.left = <<>> THEN probe.question ELSE probe.left[Len(probe.left)]
         c == validate_answer_call(question, probe.answer)
     IN probe' = [probe EXCEPT !.left = Append(@, c.question), !.results = Append(@, c.result)]
  /\ UNCHANGED <<sessions, env_subscription, response, calls, script, tasks, users, tokens>>

\* Calls build_config_from_answers: the first time on the probe's answers, then on
\* the dict the call before returned
call_build_config_from_answers ==
  /\ probe.fn = "build_config_from_answers"
  /\ Len(probe.results) < Repeats
  /\ LET answers == IF probe.results = <<>> THEN probe.answers ELSE probe.results[Len(probe.results)]
         c == build_config_call(probe.resource_type, answers)
     IN probe' = [probe EXCEPT !.passed = Append(@, answers), !.left = Append(@, c.answers), !.results = Append(@, c.result)]
  /\ UNCHANGED <<sessions, env_subscription, response, calls, script, tasks, users, tokens>>

\* Calls parse_resource_selection on the probe's input
call_parse_resource_selection ==
  /\ probe.fn = "parse_resource_selection"
  /\ Len(probe.results) < Repeats
  /\ probe' = [probe EXCEPT !.results = Append(@, parse_resource_selection(probe.user_input))]
  /\ UNCHANGED <<sessions, env_subscription, response, calls, script, tasks, users, tokens>>

FlowsInit ==
  /\ sessions = FlowsSessions
  /\ env_subscription = <<>>
  /\ response = NoResponse
  /\ calls = <<>>
  /\ script = NoScript
  /\ tasks = NoTasks
  /\ users = DefaultUsers
  /\ tokens = NoTokens
  /\ \/ \E resource_type \in BranchTypes, answer \in RawAnswers :
          \E i \in 1..Len(get_questions_for_resource(resource_type)) :
            probe = [fn |-> "validate_answer", question |-> get_questions_for_resource(resource_type)[i],
                     answer |-> answer, left |-> <<>>, results |-> <<>>]
     \/ \E user_input \in Selections :
          probe = [fn |-> "parse_resource_selection", user_input |-> user_input, results |-> <<>>]
     \/ \E resource_type \in AssembledTypes :
          \E keys \in SUBSET (QuestionKeys(resource_type) \cup {"_question_index"}) :
            probe = [fn |-> "build_config_from_answers", resource_type |-> resource_type,
                     answers |-> AnswersFor(resource_type, keys), passed |-> <<>>, left |-> <<>>, results |-> <<>>]

FlowsNext ==
  \/ call_validate_answer
  \/ call_build_config_from_answers
  \/ call_parse_resource_selection

FlowsSpec == FlowsInit /\ [][FlowsNext]_vars

\* ------------------------------------------------------------------ properties of ResourceFlows

\* The input of the probe's validate_answer call after trimming and default substitution
Trimmed ==
  IF Strip(probe.answer) = <<>> /\ probe.question.default # None THEN probe.question.default
  ELSE Strip(probe.answer)

\* The input is a decimal 1-based index into the options of the probe's question
IsIndex == IsDigit(Trimmed) /\ 1 <= ToInt(Trimmed) /\ ToInt(Trimmed) <= Len(probe.question.options)

\* The options the input equals when case is ignored
LiteralMatches == {i \in 1..Len(probe.question.options) : Lower(probe.question.options[i]) = Lower(Trimmed)}

\* The option the input stands for: the indexed one, else the first it equals
Chosen ==
  IF IsIndex THEN probe.question.options[ToInt(Trimmed)]
  ELSE probe.question.options[CHOOSE i \in LiteralMatches : \A j \in LiteralMatches : i <= j]

\* validate_answer was called on a question that has options
OptionsValidated == probe.fn = "validate_answer" /\ probe.results # <<>> /\ HasOptions(probe.question)

\* The verdict on an input for a question with options, the returned value left aside
OptionVerdict(result) ==
  /\ result.ok <=> (IsIndex \/ LiteralMatches # {})
  /\ ~result.ok => result.error = [text |-> "Please select from: ", options |-> probe.question.options]

\* C16 (as the spec has it): for a question with options the input is accepted
\* exactly if it is an index in range or equals an option when case is ignored,
\* the returned value is that option in its canonical casing, and a refusal
\* carries the "Please select from" message with all options in order.
\* A transformed value is a bool or an int and equals no option.
C16_OptionReturnedAsIs ==
  OptionsValidated =>
    /\ OptionVerdict(probe.results[1])
    /\ probe.results[1].ok => probe.question.transform = "none" /\ probe.results[1].value = Chosen

\* C16: as above, but the returned value is the chosen option in its canonical
\* casing after the question's transform, if it has one (a bool for the yes/no
\* questions), and the option itself otherwise.
C16_OptionResolution ==
  OptionsValidated =>
    /\ OptionVerdict(probe.results[1])
    /\ probe.results[1].ok => probe.results[1].value = Transform(probe.question.transform, Chosen)

\* C16 witness: the access tier question ("Hot", "Cool") answered "hot" gave "Hot"
C16_Witness ==
  /\ OptionsValidated
  /\ probe.question.options = ACCESS_TIERS
  /\ probe.answer = <<"h","o","t">>
  /\ probe.results[1].ok
  /\ probe.results[1].value = <<"H","o","t">>

\* Two returned triples are the same
SameTriple(a, b) == a.ok = b.ok /\ a.error = b.error /\ (a.ok => a.value = b.value)

AssemblerKeys(resource_type) ==
  CASE resource_type = "vm" -> {"name", "size", "os_image", "os_disk_type", "admin_username", "create_public_ip", "generate_ssh_key"}
    [] resource_type = "vnet" -> {"name", "address_space", "subnets"}
    [] resource_type = "storage" -> {"name", "sku", "kind", "access_tier", "enable_https_only"}
    [] resource_type = "aks" -> {"name", "dns_prefix", "kubernetes_version", "node_count", "node_vm_size", "network_plugin", "enable_rbac"}
    [] resource_type = "postgresql" -> {"name", "version", "sku", "storage_gb", "admin_username"}
    [] resource_type = "mysql" -> {"name", "version", "sku", "storage_gb", "admin_username"}
    [] resource_type = "sqldb" -> {"name", "server_name", "tier", "admin_username"}
    [] resource_type = "cosmosdb" -> {"name", "api_type", "consistency_level", "enable_free_tier"}

\* The default the question registry gives a key: the question's default as it
\* would be stored, None for a question without default
RegistryDefault(resource_type, key) ==
  LET question == QuestionOf(resource_type, key)
  IN IF question.default = None THEN None ELSE Transform(question.transform, question.default)

\* What a key of the assembled dict holds, given the answers
ExpectedValue(resource_type, answers, key) ==
  IF key \in {"generate_ssh_key", "enable_https_only", "enable_rbac"} THEN TRUE
  ELSE IF key = "subnets"
    THEN << [name |-> DictGet(answers, "subnet_name", RegistryDefault(resource_type, "subnet_name")),
             address_prefix |-> DictGet(answers, "subnet_prefix", RegistryDefault(resource_type, "subnet_prefix"))] >>
  ELSE IF key \in DOMAIN answers THEN answers[key]
  ELSE IF key = "dns_prefix" THEN DictGet(answers, "name", None)
  ELSE RegistryDefault(resource_type, key)

\* build_config_from_answers was called on the probe's answers
Assembled == probe.fn = "build_config_from_answers" /\ probe.results # <<>>

\* C18: for a resource type with a branch, the assembler returns a dict with
\* exactly the keys of the branch, each holding the answer if there is one and
\* else its default (that of the question registry; None for a name, the name for
\* dns_prefix, TRUE for the fixed flags), from the empty answers too; for any other
\* resource type it returns the answers as they are.
C18_AssemblerDefaults ==
  Assembled =>
    LET result == probe.results[1]
    IN IF probe.resource_type \in BranchTypes
         THEN /\ DOMAIN result = AssemblerKeys(probe.resource_type)
              /\ \A key \in AssemblerKeys(probe.resource_type) :
                   result[key] = ExpectedValue(probe.resource_type, probe.answers, key)
       ELSE result = probe.answers

\* C18 witness: the VM config assembled from the empty answers
C18_Witness ==
  /\ Assembled
  /\ probe.resource_type = "vm"
  /\ probe.answers = EmptyDict
  /\ probe.results[1].size = <<"S","t","a","n","d","a","r","d","_","B","2","s">>
  /\ probe.results[1].create_public_ip = TRUE

\* Every call of the assembler left the dict it was handed as it was
AnswersUntouched == \A i \in 1..Len(probe.results) : probe.left[i] = probe.passed[i]

ScenarioSession == CHOOSE session_id \in SessionIds : TRUE

\* Scenario A up to the first question: selection, subscription, resource group, region
ScenarioOpening == << <<"V","i","r","t","u","a","l"," ","M","a","c","h","i","n","e">>, <<"d","e","f","a","u","l","t">>, <<"n","e","w",":","d","e","m","o","-","r","g">>, <<"e","a","s","t","u","s">> >>

\* What a script answers to a VM question: nothing, or a name
ScenarioAnswers == { <<>>, <<"v","m","-","0","1">> }

\* Scenario C up to the first question: greeting, a database by its category
\* word, subscription, an existing resource group, region by its number
DatabaseOpening == << <<"h","e","l","l","o">>, <<"d","a","t","a","b","a","s","e">>, <<"d","e","f","a","u","l","t">>, <<"r","g","1">>, <<"1">> >>

\* What a script answers to a database question: nothing, a name, or a reserved word
DatabaseAnswers == { <<>>, <<"p","g","-","s","r","v","1">>, <<"R","o","o","t">> }

\* The members of ResourceType that get_questions_for_resource has no questions for
QuestionlessTypes == {resource_type \in ResourceType : Len(get_questions_for_resource(resource_type)) = 0}

\* What is sent to a session waiting in REGION for a questionless type: a region
\* answer, then two more messages
BoundaryMessages == { <<"1">>, <<"m","a","r","s">>, <<"e","d","i","t">>, <<"h","e","l","l","o">>, <<"t","f">> }

BoundaryScripts == {<<first>> \o rest : first \in { <<"1">>, <<"m","a","r","s">> }, rest \in [1..2 -> BoundaryMessages]}

\* A session of a questionless type waiting in REGION, as ConversationManager's
\* setters leave it (parse_resource_selection never yields such a type)
BoundarySessions ==
  {LET s1 == set_resource_type(get_or_create_session(EmptyDict, ScenarioSession), ScenarioSession, resource_type)
       s2 == set_subscription(s1, ScenarioSession, <<"0","f","8","f","a","d","5","b","-","d","9","c","b","-","4","6","9","f","-","a","1","6","5","-","7","0","8","6","7","7","2","8","9","5","0","e">>)
       s3 == set_resource_group(s2, ScenarioSession, <<"r","g","1">>, FALSE)
   IN set_state(s3, ScenarioSession, "region") : resource_type \in QuestionlessTypes}

\* A Cosmos DB conversation up to CONFIRMATION, with an API and the free tier chosen
EditOpening == << <<"h","e","l","l","o">>, <<"c","o","s","m","o","s">>, <<"d","e","f","a","u","l","t">>, <<"r","g","1">>, <<"1">>, <<"a","c","c","t","1">>, <<"2">>, <<>>, <<"y","e","s">> >>

\* The conversation gone on with an edit round: "edit", a new name, and each other
\* question answered by nothing or by the number of its first option
EditScripts ==
  {EditOpening \o << <<"e","d","i","t">>, <<"a","c","c","t","2">> >> \o answers : answers \in [1..(Len(COSMOSDB_QUESTIONS) - 1) -> { <<>>, <<"1">> }]}

\* The scripts: scenario A with or without a first message before the selection,
\* and with each VM question answered by one of ScenarioAnswers; scenario C with
\* each PostgreSQL question answered by one of DatabaseAnswers
Scripts ==
  {first \o ScenarioOpening \o answers :
     first \in {<<>>, << <<"h","e","l","l","o">> >>}, answers \in [1..Len(VM_QUESTIONS) -> ScenarioAnswers]}
  \cup {DatabaseOpening \o answers : answers \in [1..Len(POSTGRESQL_QUESTIONS) -> DatabaseAnswers]}
  \cup EditScripts

\* The client sends the next message of the script to its session
send_next ==
  /\ ScenarioSession \in DOMAIN sessions
  /\ script.sent < Len(script.messages)
  /\ chat_request(ScenarioSession, script.messages[script.sent + 1])
  /\ script' = [script EXCEPT !.sent = @ + 1]
  /\ UNCHANGED <<probe, tasks, users, tokens>>

ScenarioInit ==
  /\ env_subscription \in EnvSubscriptions
  /\ response = NoResponse
  /\ calls = <<>>
  /\ probe = NoProbe
  /\ tasks = NoTasks
  /\ users = DefaultUsers
  /\ tokens = NoTokens
  /\ \/ /\ sessions = EmptyDict
        /\ \E messages \in Scripts : script = [messages |-> messages, sent |-> 0]
     \/ /\ sessions \in BoundarySessions
        /\ \E messages \in BoundaryScripts : script = [messages |-> messages, sent |-> 0]

ScenarioNext ==
  \/ \E current_user \in Principals : create_session(ScenarioSession, current_user)
  \/ send_next

ScenarioSpec == ScenarioInit /\ [][ScenarioNext]_vars

\* The script was sent to the end, with a fallback subscription configured
Played(messages) ==
  /\ script.messages = messages
  /\ script.sent = Len(messages)
  /\ env_subscription # <<>>

\* Where scenario A is to end
ScenarioAReached ==
  LET session == sessions[ScenarioSession]
  IN /\ session.state = "confirmation"
     /\ session.resource_type = "vm"
     /\ session.config.size = <<"S","t","a","n","d","a","r","d","_","B","2","s">>
     /\ session.config.os_image = <<"U","b","u","n","t","u","2","2","0","4">>
     /\ session.config.admin_username = <<"a","z","u","r","e","u","s","e","r">>

RestartWords == { <<"r","e","s","t","a","r","t">>, <<"r","e","s","e","t">>, <<"s","t","a","r","t"," ","o","v","e","r">>, <<"n","e","w">> }

\* The message the script sends next
NextMessage == script.messages[script.sent + 1]

\* The script's session is in RESOURCE_CONFIG and this step answers its question
AnswerStep ==
  /\ ScenarioSession \in DOMAIN sessions
  /\ sessions[ScenarioSession].state = "resource_config"
  /\ script.sent < Len(script.messages)
  /\ script'.sent = script.sent + 1
  /\ Lower(Strip(NextMessage)) \notin RestartWords

\* C21: in RESOURCE_CONFIG an answer the validator accepts stores the transformed
\* value under the key of the question at the cursor, leaves every other answer as
\* it was and moves the cursor on by exactly 1; an answer the validator rejects
\* leaves collected_params (cursor included) and the state unchanged, and the reply
\* asks the same question again with the validator's error, which is the
\* question's configured error when its validation predicate failed.
C21_AnswerStoresOneKey ==
  [][AnswerStep =>
       LET before == sessions[ScenarioSession]
           after == sessions'[ScenarioSession]
           questions == get_questions_for_resource(before.resource_type)
           index == Cursor(before)
           question == questions[index + 1]
           v == validate_answer(question, NextMessage)
           others == (DOMAIN after.collected_params) \ {question.key, "_question_index"}
       IN /\ index < Len(questions)
          /\ IF v.ok
               THEN /\ Cursor(after) = index + 1
                    /\ question.key \in DOMAIN after.collected_params
                    /\ after.collected_params[question.key] = v.value
                    /\ others = (DOMAIN before.collected_params) \ {question.key, "_question_index"}
                    /\ \A k \in others : after.collected_params[k] = before.collected_params[k]
                    /\ IF index + 1 < Len(questions)
                         THEN after.state = "resource_config" /\ response'.question = questions[index + 2].key
                       ELSE after.state = "confirmation"
             ELSE /\ after.collected_params = before.collected_params
                  /\ after.state = "resource_config"
                  /\ response'.message = "Please try again:"
                  /\ response'.question = question.key
                  /\ response'.detail = v.error
                  /\ (~HasOptions(question) => response'.detail.text = question.error)]_vars

\* C21 witness: scenario C, the reserved word "Root" was sent for the admin
\* username of a PostgreSQL server and turned down with the question's error
C21_Witness ==
  /\ script.sent > 0
  /\ script.messages[script.sent] = <<"R","o","o","t">>
  /\ sessions[ScenarioSession].resource_type = "postgresql"
  /\ sessions[ScenarioSession].state = "resource_config"
  /\ Cursor(sessions[ScenarioSession]) = 4
  /\ response.question = "admin_username"
  /\ response.detail.text = "Username cannot be reserved words like admin, postgres, root, etc."

\* The lower-cased, trimmed input of the direct call of parse_resource_selection
Selected == Strip(Lower(probe.user_input))

\* A resource key or a lower-cased display name is a substring of the input
DirectlyNamed(u) == {i \in 1..Len(RESOURCE_OPTIONS) : Contains(RESOURCE_OPTIONS[i].key, u) \/ Contains(Lower(RESOURCE_OPTIONS[i].name), u)}

\* The category keywords in the order they are tried, each with the type it stands
\* for, the words that ask for it and the word that rules it out
CategoryRules == <<
  [rt |-> "vm", any |-> { <<"v","i","r","t","u","a","l"," ","m","a","c","h","i","n","e">>, <<"v","m">> }, unless |-> {}],
  [rt |-> "vnet", any |-> { <<"v","i","r","t","u","a","l"," ","n","e","t","w","o","r","k">>, <<"v","n","e","t">> }, unless |-> {}],
  [rt |-> "storage", any |-> { <<"s","t","o","r","a","g","e">>, <<"b","l","o","b">> }, unless |-> {}],
  [rt |-> "aks", any |-> { <<"a","k","s">>, <<"k","u","b","e","r","n","e","t","e","s">>, <<"k","8","s">> }, unless |-> {}],
  [rt |-> "postgresql", any |-> { <<"p","o","s","t","g","r","e","s","q","l">>, <<"p","o","s","t","g","r","e","s">>, <<"p","g","s","q","l">> }, unless |-> {}],
  [rt |-> "mysql", any |-> { <<"m","y","s","q","l">> }, unless |-> {}],
  [rt |-> "sqldb", any |-> { <<"s","q","l">> }, unless |-> { <<"c","o","s","m","o","s">> }],
  [rt |-> "cosmosdb", any |-> { <<"c","o","s","m","o","s">>, <<"d","o","c","u","m","e","n","t","d","b">>, <<"n","o","s","q","l">> }, unless |-> {}],
  [rt |-> "postgresql", any |-> { <<"d","a","t","a","b","a","s","e">>, <<"d","b">> }, unless |-> {}] >>

\* The category rules an input sets off ("network" together with "vn" also asks for a virtual network)
RulesSetOff(u) ==
  {i \in 1..Len(CategoryRules) :
     /\ \/ \E w \in CategoryRules[i].any : Contains(w, u)
        \/ CategoryRules[i].rt = "vnet" /\ Contains(<<"n","e","t","w","o","r","k">>, u) /\ Contains(<<"v","n">>, u)
     /\ \A w \in CategoryRules[i].unless : ~Contains(w, u)}

\* C22: parse_resource_selection returns the type of a resource whose key or
\* display name is a substring of the lower-cased input whenever there is one (the
\* first in registry order), whatever category keywords the input holds as well;
\* otherwise the type of the first category rule, in their fixed order, that the
\* input sets off, so that an input setting off only the "database"/"db" rule gives
\* PostgreSQL; an input that matches nothing gives no type.  A second call with
\* the same input returns the same.
C22_ParsingPrecedence ==
  (probe.fn = "parse_resource_selection" /\ probe.results # <<>>) =>
    LET direct == DirectlyNamed(Selected)
        rules == RulesSetOff(Selected)
        result == probe.results[1]
    IN /\ direct # {} => result = RESOURCE_OPTIONS[CHOOSE i \in direct : \A j \in direct : i <= j].rt
       /\ (direct = {} /\ rules # {}) => result = CategoryRules[CHOOSE i \in rules : \A j \in rules : i <= j].rt
       /\ (direct = {} /\ rules = {Len(CategoryRules)}) => result = "postgresql"
       /\ (direct = {} /\ rules = {}) => result = NoResourceType
       /\ \A i \in 1..Len(probe.results) : probe.results[i] = result

\* C22 witness: "kubernetes mysql", which names MySQL directly and sets off the
\* earlier Kubernetes rule, was parsed twice and gave MySQL
C22_Witness ==
  /\ probe.fn = "parse_resource_selection"
  /\ Len(probe.results) = Repeats
  /\ probe.user_input = <<"k","u","b","e","r","n","e","t","e","s"," ","m","y","s","q","l">>
  /\ probe.results[1] = "mysql"
  /\ 4 \in RulesSetOff(Selected)

\* The states after the one that collects the subscription, the resource group, the region
AfterSubscription == {"resource_group", "region", "resource_config", "confirmation", "execution_method", "creating", "completed", "error"}

AfterResourceGroup == AfterSubscription \ {"resource_group"}

AfterRegion == AfterResourceGroup \ {"region"}

\* The location parameters of a session are valid where stored, and stored where due
LocationValid(session) ==
  /\ session.subscription_id = None \/ Len(session.subscription_id) >= 32
  /\ session.resource_group = None \/ Len(session.resource_group) >= 1
  /\ session.region = None \/ InSeq(session.region, AZURE_REGIONS)
  /\ session.state \in AfterSubscription => session.subscription_id # None
  /\ session.state \in AfterResourceGroup => session.resource_group # None
  /\ session.state \in AfterRegion => session.region # None

\* Spellings of a subscription answer (36, 32 and 31 characters, the fallback
\* token, nothing) and values of the configured fallback (unset, too short, a GUID)
SubscriptionSpellings ==
  { <<"d","e","f","a","u","l","t">>, <<" ","D","E","F","A","U","L","T"," ">>, <<>>, <<" ","0","F","8","F","A","D","5","B","-","D","9","C","B","-","4","6","9","F","-","A","1","6","5","-","7","0","8","6","7","7","2","8","9","5","0","E"," ">>,
    <<"0","f","8","f","a","d","5","b","d","9","c","b","4","6","9","f","a","1","6","5","7","0","8","6","7","7","2","8","9","5","0","e">>, <<"0","f","8","f","a","d","5","b","d","9","c","b","4","6","9","f","a","1","6","5","7","0","8","6","7","7","2","8","9","5","0">> }

FallbackSpellings == { <<>>, <<"s","u","b","-","1">>, <<"0","f","8","f","a","d","5","b","-","d","9","c","b","-","4","6","9","f","-","a","1","6","5","-","7","0","8","6","7","7","2","8","9","5","0","e">> }

\* Spellings of a resource group answer and of a region answer
GroupSpellings == { <<"r","g","1">>, <<" ","M","y","-","R","G"," ">>, <<"n","e","w",":","r","g","1">>, <<"N","E","W",":"," ","r","g","2"," ">>, <<"N","e","w",":">>, <<"n","e","w",":"," "," ">>, <<>>, <<"n","e","w">>, <<"n","e","w","e","r",":","r","g">> }

RegionSpellings == { <<"1">>, <<"6">>, <<"7">>, <<"0">>, <<" ","E","a","s","t","U","S"," ">>, <<"w","e","s","t","u","s","2">>, <<"m","a","r","s">>, <<>> }

\* The session a message leaves behind, the collaborators doing well
SessionAfter(s, message, env) ==
  chat_result(sessions, s, message, env, [rg_raises |-> FALSE, kind |-> "success", text |-> "QuotaExceeded"]).sessions[s]

\* C23: in every session the subscription id is unset or at least 32 characters
\* long (also when the "default" fallback supplied it), the resource group is
\* unset or non-empty and the region is unset or a recognized region; the
\* subscription id is set from RESOURCE_GROUP on, the resource group from REGION
\* on and the region from RESOURCE_CONFIG on.  This holds of every session
\* reached, and of the session any spelling of a subscription, resource group or
\* region answer leaves behind, whatever fallback is configured.
C23_LocationValid ==
  \A s \in DOMAIN sessions :
    /\ LocationValid(sessions[s])
    /\ sessions[s].state = "subscription" =>
         \A message \in SubscriptionSpellings, env \in FallbackSpellings : LocationValid(SessionAfter(s, message, env))
    /\ sessions[s].state = "resource_group" =>
         \A message \in GroupSpellings : LocationValid(SessionAfter(s, message, env_subscription))
    /\ sessions[s].state = "region" =>
         \A message \in RegionSpellings : LocationValid(SessionAfter(s, message, env_subscription))

\* C23 witness: a session that took the fallback subscription, a resource group
\* and a region by its number, and went on to be provisioned
C23_Witness ==
  \E s \in DOMAIN sessions :
    /\ sessions[s].state \in {"completed", "error"}
    /\ sessions[s].subscription_id = env_subscription
    /\ Len(sessions[s].subscription_id) >= 32
    /\ sessions[s].resource_group = <<"r","g","1">>
    /\ sessions[s].region = <<"e","a","s","t","u","s">>

\* What a resource group answer asks for: whether it carries the prefix "new:"
\* (in any case), and the name it gives
CarriesPrefix(message) == StartsWith(Lower(Strip(message)), <<"n","e","w",":">>)

GroupNamed(message) ==
  IF CarriesPrefix(message) THEN Strip(SubSeq(Strip(message), 5, Len(Strip(message)))) ELSE Strip(message)

\* What the claim says of one resource group answer to a session in RESOURCE_GROUP
GroupAnswerStored(s, message) ==
  LET after == SessionAfter(s, message, env_subscription)
  IN IF GroupNamed(message) = <<>>
       THEN SessionData(after) = SessionData(sessions[s])
     ELSE /\ after.resource_group = GroupNamed(message)
          /\ after.create_new_rg = CarriesPrefix(message)
          /\ after.state = "region"
          /\ [SessionData(after) EXCEPT !.resource_group = None, !.create_new_rg = FALSE, !.state = "resource_group"]
               = [SessionData(sessions[s]) EXCEPT !.resource_group = None, !.create_new_rg = FALSE]

\* C24 (as the spec has it): a resource group answer with the prefix "new:", in
\* any case, stores the trimmed remainder with the flag set; any other non-empty
\* answer stores the trimmed answer itself with the flag clear; an answer whose
\* name is empty is turned down and changes nothing.
C24_GroupInput ==
  \A s \in DOMAIN sessions :
    sessions[s].state = "resource_group" => \A message \in GroupSpellings : GroupAnswerStored(s, message)

\* C24: the same of every answer that is not a restart keyword; a restart keyword
\* ("new" without the colon among them) is not taken as a resource group name: it
\* resets the session, which then holds no resource group.
C24_GroupInputButRestartWords ==
  \A s \in DOMAIN sessions :
    sessions[s].state = "resource_group" =>
      \A message \in GroupSpellings :
        IF Lower(Strip(message)) \in RestartWords
          THEN SessionData(SessionAfter(s, message, env_subscription)) = NewSession
        ELSE GroupAnswerStored(s, message)

\* C24 witness: the answer "new:rg1" was taken: rg1 is stored with the flag set
\* and the reply asks for the region
C24_Witness ==
  \E s \in DOMAIN sessions :
    /\ sessions[s].state = "region"
    /\ sessions[s].resource_group = <<"r","g","1">>
    /\ sessions[s].create_new_rg
    /\ response.message = "Select an Azure region:"

\* The region a region answer stands for: a popular region by its number, else the answer in lower case
RegionNamed(message) ==
  LET typed == Lower(Strip(message))
  IN IF IsDigit(typed) /\ 1 <= ToInt(typed) /\ ToInt(typed) <= Len(PopularRegions) THEN PopularRegions[ToInt(typed)] ELSE typed

\* The session has a resource type, and the type has no configuration questions
Questionless(session) == session.resource_type \in QuestionlessTypes

\* C25: a session whose resource type has no configuration questions goes from
\* REGION to CONFIRMATION on the message that gives a recognized region: the
\* message leaves it in CONFIRMATION with the region stored and the summary as the
\* reply, no question is asked, and such a session is never left in
\* RESOURCE_CONFIG by any message, so none is handled there.
C25_NoQuestionsSkipsConfig ==
  [][/\ \A s \in DOMAIN sessions' : Questionless(sessions'[s]) => sessions'[s].state # "resource_config"
     /\ (/\ ScenarioSession \in DOMAIN sessions
         /\ Questionless(sessions[ScenarioSession])
         /\ sessions[ScenarioSession].state = "region"
         /\ script.sent < Len(script.messages)
         /\ script'.sent = script.sent + 1
         /\ InSeq(RegionNamed(NextMessage), AZURE_REGIONS))
        => /\ sessions'[ScenarioSession].state = "confirmation"
           /\ sessions'[ScenarioSession].region = RegionNamed(NextMessage)
           /\ response'.state = "confirmation"
           /\ response'.message = "Configuration Summary"
           /\ response'.question = "None"]_vars

\* C25 witness: a session of a questionless type was sent "1" in REGION and then
\* "edit"; it is in CONFIRMATION again
C25_Witness ==
  /\ ScenarioSession \in DOMAIN sessions
  /\ Questionless(sessions[ScenarioSession])
  /\ script.sent = 2
  /\ script.messages[1] = <<"1">>
  /\ script.messages[2] = <<"e","d","i","t">>
  /\ sessions[ScenarioSession].state = "confirmation"
  /\ sessions[ScenarioSession].region = <<"e","a","s","t","u","s">>

\* First messages to a session: greetings, selections, answers of later stages, a restart keyword
FirstMessages == { <<"h","e","l","l","o">>, <<"V","i","r","t","u","a","l"," ","M","a","c","h","i","n","e">>, <<"c","o","s","m","o","s">>, <<"d","a","t","a","b","a","s","e">>, <<>>, <<"1">>, <<"y","e","s">>, <<"n","e","w",":","r","g","1">>, <<" ","N","e","w"," ">> }

\* collected_params as POST /api/session leaves it for a principal
TagsOf(current_user) == DictSet(DictSet(EmptyDict, "_user_id", current_user.user_id), "_username", current_user.username)

\* What the first message does to a session in INITIAL, or to an id not seen before
FirstMessageWelcomed ==
  \A s \in SessionIds :
    (s \notin DOMAIN sessions \/ sessions[s].state = "initial") =>
      \A message \in FirstMessages :
        Lower(Strip(message)) \notin RestartWords =>
          LET before == get_or_create_session(sessions, s)[s]
              r == chat_result(sessions, s, message, env_subscription, [rg_raises |-> FALSE, kind |-> "success", text |-> "QuotaExceeded"])
          IN /\ (s \notin DOMAIN sessions => before = NewSession)
             /\ r.response.message = "Welcome to the Azure Provisioning Assistant!"
             /\ r.response.state = "resource_selection"
             /\ r.calls = <<>>
             /\ SessionData(r.sessions[s]) = [SessionData(before) EXCEPT !.state = "resource_selection"]

\* C26 (as the spec has it): a session created by POST /api/session, or by the
\* first chat message for an unknown id, is in INITIAL with every other field
\* empty; the first message handled in INITIAL that is not a restart keyword is
\* answered by the welcome whatever it says, stores RESOURCE_SELECTION and sets no
\* other field (the message log aside).
C26_CreatedEmpty ==
  /\ response.endpoint = "create_session" => sessions[response.session_id] = NewSession
  /\ FirstMessageWelcomed

\* C26: the same, but a session created by POST /api/session for an authenticated
\* principal holds the principal's _user_id and _username in collected_params;
\* every other field is empty, and the first message leaves the two entries alone.
C26_CreatedEmptyButPrincipal ==
  /\ response.endpoint = "create_session" =>
       \E current_user \in Principals :
         sessions[response.session_id] =
           [NewSession EXCEPT !.collected_params = IF current_user = NoUser THEN EmptyDict ELSE TagsOf(current_user)]
  /\ FirstMessageWelcomed

\* C26 witness: a session created for a principal got its first message and is in RESOURCE_SELECTION, tags kept
C26_Witness ==
  \E s \in DOMAIN sessions :
    /\ sessions[s].state = "resource_selection"
    /\ Len(sessions[s].messages) = 2
    /\ sessions[s].collected_params = TagsOf([user_id |-> "u1", username |-> "alice"])
    /\ response.message = "Welcome to the Azure Provisioning Assistant!"

\* A session id no session is ever held for
AbsentId == "s0"

\* The step is a DELETE /api/session/{session_id} that changes something
DeleteStep == response'.endpoint = "delete_session" /\ vars' # vars

\* C27: DELETE for an id the manager holds removes that session, leaves every
\* other one as it was and replies 200 "deleted"; DELETE for an id it does not
\* hold (a second DELETE of the same id among them) replies 404 "Session not
\* found" and changes no session; no DELETE leaves a session in ERROR that was not
\* in ERROR before.
C27_DeleteSession ==
  [][/\ delete_session_result(sessions, AbsentId) = [sessions |-> sessions, deleted |-> FALSE]
     /\ DeleteStep =>
          LET session_id == response'.session_id
          IN /\ IF session_id \in DOMAIN sessions
                  THEN /\ DOMAIN sessions' = (DOMAIN sessions) \ {session_id}
                       /\ response'.status = 200
                       /\ response'.message = "deleted"
                       /\ LET again == delete_session_result(sessions', session_id)
                          IN again = [sessions |-> sessions', deleted |-> FALSE]
                ELSE /\ sessions' = sessions
                     /\ response'.status = 404
                     /\ response'.message = "Session not found"
             /\ \A s \in DOMAIN sessions' : s \in DOMAIN sessions /\ sessions'[s] = sessions[s]
             /\ response'.state # "error"
             /\ calls' = <<>>]_vars

\* C27 witness: a DELETE for an id the manager holds no session for was answered
\* 404 "Session not found"
C27_Witness ==
  /\ response.endpoint = "delete_session"
  /\ response.status = 404
  /\ response.message = "Session not found"
  /\ sessions = EmptyDict

\* The selection and location of a session: what was chosen and where it goes
Target(session) ==
  <<session.resource_type, session.subscription_id, session.resource_group, session.create_new_rg, session.region>>

\* C28: a request that is not a reset (restart keyword, cancel at confirmation,
\* restart after completion) and not a DELETE leaves the resource type, the
\* subscription id, the resource group with its create-new flag and the region
\* of a session as they were, once they are set.
C28_TargetKeptUntilReset ==
  [][\A s \in (DOMAIN sessions) \cap (DOMAIN sessions') :
       (response'.endpoint = "chat" /\ response'.message \notin ResetReplies) =>
         /\ sessions[s].resource_type # NoResourceType => sessions'[s].resource_type = sessions[s].resource_type
         /\ sessions[s].subscription_id # None => sessions'[s].subscription_id = sessions[s].subscription_id
         /\ sessions[s].resource_group # None =>
              /\ sessions'[s].resource_group = sessions[s].resource_group
              /\ sessions'[s].create_new_rg = sessions[s].create_new_rg
         /\ sessions[s].region # None => sessions'[s].region = sessions[s].region]_vars

\* C28 witness: a session whose provisioning failed, all questions answered and
\* the creation confirmed, still holds what was chosen before the questions
C28_Witness ==
  \E s \in DOMAIN sessions :
    /\ sessions[s].state = "error"
    /\ sessions[s].execution_method = "azure_sdk"
    /\ Target(sessions[s]) = <<"cosmosdb", env_subscription, <<"r","g","1">>, TRUE, <<"e","a","s","t","u","s">>>>

\* The keywords a completed session listens to: those of the global rule and those of handle_completed_state
CompletedWords == RestartWords \cup { <<"r","e","s","t","a","r","t">>, <<"n","e","w">>, <<"a","n","o","t","h","e","r">>, <<"r","e","s","e","t">> }

\* Messages to a completed session
CompletedMessages ==
  { <<"r","e","s","t","a","r","t">>, <<" ","R","e","s","e","t"," ">>, <<"S","t","a","r","t"," ","O","v","e","r">>, <<"N","E","W">>, <<"A","n","o","t","h","e","r">>, <<"y","e","s">>, <<"c","r","e","a","t","e">>, <<"t","f">>, <<"T","e","r","r","a","f","o","r","m">>,
    <<"e","d","i","t">>, <<"n","o">>, <<"h","e","l","l","o">>, <<"a","g","a","i","n">>, <<"a","n","o","t","h","e","r"," ","o","n","e">>, <<>> }

\* C29: a message to a session in COMPLETED that is a restart keyword, or
\* "another", does what the global restart rule does: the session is replaced by
\* a fresh one exactly as "restart" would leave it, and the reply carries the
\* selection prompt with state RESOURCE_SELECTION.  Any other message gets the
\* reminder "Resource creation complete!" with state COMPLETED and changes
\* nothing of the session but its message log.  Neither calls the provisioning
\* or the code generation collaborators, whatever they would do.
C29_CompletedOnlyRestarts ==
  \A s \in DOMAIN sessions :
    sessions[s].state = "completed" =>
      \A message \in CompletedMessages, outcome \in Outcomes :
        LET r == chat_result(sessions, s, message, env_subscription, outcome)
            restarted == chat_result(sessions, s, <<"r","e","s","t","a","r","t">>, env_subscription, outcome)
        IN /\ r.calls = <<>>
           /\ r.response.terraform_code = <<>>
           /\ r.response.created_resource = <<>>
           /\ IF Lower(Strip(message)) \in CompletedWords
                THEN /\ r.sessions = restarted.sessions
                     /\ SessionData(r.sessions[s]) = NewSession
                     /\ r.response.state = "resource_selection"
                     /\ r.response.state = restarted.response.state
                     /\ r.response.message \in ResetReplies
              ELSE /\ r.response.message = "Resource creation complete!"
                   /\ r.response.state = "completed"
                   /\ SessionData(r.sessions[s]) = SessionData(sessions[s])

\* C29 witness: a completed session was sent something else than a restart
\* keyword and got the reminder; it is still completed, its configuration kept
C29_Witness ==
  \E s \in DOMAIN sessions :
    /\ sessions[s].state = "completed"
    /\ sessions[s].config # EmptyDict
    /\ response.message = "Resource creation complete!"
    /\ calls = <<>>

\* The states a session is in before it has chosen how to be executed
BeforeExecution == {"initial", "resource_selection", "subscription", "resource_group", "region", "resource_config", "confirmation"}

\* C30: execution_method is None in every state up to CONFIRMATION, "azure_sdk"
\* once the creation was confirmed and "terraform" once the code was asked for,
\* so that a session in COMPLETED or ERROR always names the path it took.
C30_ExecutionMethodSet ==
  \A s \in DOMAIN sessions :
    /\ sessions[s].state \in BeforeExecution => sessions[s].execution_method = "None"
    /\ sessions[s].state \in {"execution_method", "creating", "error"} => sessions[s].execution_method = "azure_sdk"
    /\ sessions[s].state = "completed" => sessions[s].execution_method \in {"azure_sdk", "terraform"}
    /\ (response.endpoint = "chat" /\ response.session_id = s) =>
         /\ response.message = "Resource Created Successfully!" => sessions[s].execution_method = "azure_sdk"
         /\ response.message = "Here's your Terraform configuration:" => sessions[s].execution_method = "terraform"

\* ------------------------------------------------------------------ the event loop

\* How many requests the event loop may hold at once
MaxTasks == 2

\* A conversation that brings a Cosmos DB session to EXECUTION_METHOD, into an
\* existing resource group or into one to be created
LoopScripts ==
  {<< <<"h","e","l","l","o">>, <<"c","o","s","m","o","s">>, <<"d","e","f","a","u","l","t">>, group, <<"1">> >> \o [i \in 1..Len(COSMOSDB_QUESTIONS) |-> IF i = 1 THEN <<"a","c","c","t","1">> ELSE <<>>] \o << <<"y","e","s">> >> :
     group \in { <<"r","g","1">>, <<"n","e","w",":","r","g","1">> }}

\* What clients send while other requests are in flight
LoopInputs == { <<"1">>, <<"r","e","s","t","a","r","t">>, <<"e","d","i","t">> }

\* The session ids requests are sent for: the session of the conversation and another
LoopSessionIds == {ScenarioSession, "s2"}

OtherSession == CHOOSE session_id \in LoopSessionIds : session_id # ScenarioSession

\* What the client of the other session sends
OtherInputs == { <<"r","e","s","t","a","r","t">> }

\* The sessions after the first n messages of a conversation were answered one by one
RECURSIVE Conversation(_, _, _)
Conversation(messages, n, env) ==
  IF n = 0 THEN EmptyDict
  ELSE LET ss == Conversation(messages, n - 1, env)
       IN chat_result(ss, ScenarioSession, messages[n], env, CHOOSE outcome \in OutcomesFor(ss, ScenarioSession) : TRUE).sessions

\* create_azure_resource and the services under it hand control back to the event loop
create_azure_resource_suspends_at_await == TRUE

\* create_azure_resource awaits coroutines that await nothing: every services
\* create_* calls the blocking SDK (poller.result()), so the await at
\* handle_execution_method never hands control back to the event loop
create_azure_resource_suspends == FALSE

\* A request the event loop holds
Task(kind, session_id, message) ==
  [kind |-> kind, session_id |-> session_id, message |-> message, pc |-> "received", overlapped |-> FALSE,
   outcome |-> CHOOSE outcome \in Outcomes : TRUE, response |-> NoResponse, calls |-> <<>>]

\* What a step of a request leaves behind: the sessions and the request
Stepped(ss, t, pc, resp, cs) == [sessions |-> ss, task |-> [t EXCEPT !.pc = pc, !.response = resp, !.calls = cs]]

\* The request waits at an await, with what its handler will reply when it goes on
Suspended(ss, t, r) == Stepped(ss, t, "suspended", r.response, r.calls)

\* The request was answered with what a handler left behind
Answered(t, r) == Stepped(r.sessions, t, "done", r.response, r.calls)

\* chat up to the await of create_azure_resource in handle_execution_method: the
\* session was looked up, the user message logged, the state read and the handler
\* chosen, the resource group created if it was to be
chat_until_await(ss, t, env) ==
  LET s1 == add_message(get_or_create_session(ss, t.session_id), t.session_id, "user")
  IN Suspended(s1, t, handle_execution_method(s1, t.session_id, Strip(t.message), t.outcome))

\* chat from the return of create_azure_resource on: set_state by session id,
\* then the assistant message by session id
chat_after_await(ss, t) ==
  Stepped(add_message(set_state(ss, t.session_id, t.response.state), t.session_id, "assistant"), t, "done", t.response, t.calls)

\* The request gets as far as the await of create_azure_resource
ReachesAwait(ss, t) ==
  LET s0 == get_or_create_session(ss, t.session_id)
  IN /\ Lower(Strip(t.message)) \notin RestartWords
     /\ s0[t.session_id].state = "execution_method"
     /\ ~(s0[t.session_id].create_new_rg /\ t.outcome.rg_raises)

\* One turn of the event loop for a request: it runs to its next suspension point or to its end
task_step(ss, t, env) ==
  IF t.kind = "delete"
    THEN Stepped(delete_session_result(ss, t.session_id).sessions, t, "done",
                 IF t.session_id \in DOMAIN ss THEN HttpResponse("delete_session", 200, t.session_id, "deleted")
                 ELSE HttpResponse("delete_session", 404, t.session_id, "Session not found"), <<>>)
  ELSE IF t.pc = "suspended" THEN chat_after_await(ss, t)
  ELSE IF create_azure_resource_suspends /\ ReachesAwait(ss, t) THEN chat_until_await(ss, t, env)
  ELSE Answered(t, chat_result(ss, t.session_id, t.message, env, t.outcome))

\* A request arrives while the event loop may hold others
receive(kind, session_id, message) ==
  /\ Len(tasks) < MaxTasks
  /\ tasks' = Append(tasks, Task(kind, session_id, message))
  /\ UNCHANGED <<sessions, env_subscription, response, calls, probe, script, users, tokens>>

\* The event loop runs a request it holds to its next suspension point or to its end
run(i) ==
  /\ tasks[i].pc # "done"
  /\ \E outcome \in (IF tasks[i].pc = "received" THEN OutcomesFor(sessions, tasks[i].session_id) ELSE {tasks[i].outcome}) :
       \E r \in {task_step(sessions, [tasks[i] EXCEPT !.outcome = outcome,
                                                        !.overlapped = @ \/ \E j \in 1..Len(tasks) : j # i /\ tasks[j].pc # "done"],
                             env_subscription)} :
         /\ sessions' = r.sessions
         /\ tasks' = [tasks EXCEPT ![i] = r.task]
         /\ response' = IF r.task.pc = "done" THEN r.task.response ELSE response
         /\ calls' = r.task.calls
  /\ UNCHANGED <<env_subscription, probe, script, users, tokens>>

\* The client goes on with its conversation, one message after the answer to the
\* last, as long as nothing else is in flight
converse ==
  /\ tasks = NoTasks
  /\ script.sent < Len(script.messages)
  /\ chat_request(ScenarioSession, script.messages[script.sent + 1])
  /\ script' = [script EXCEPT !.sent = @ + 1]
  /\ UNCHANGED <<probe, tasks, users, tokens>>

LoopInit ==
  /\ env_subscription \in EnvSubscriptions \ {<<>>}
  /\ \E messages \in LoopScripts : script = [messages |-> messages, sent |-> 0]
  /\ sessions = EmptyDict
  /\ response = NoResponse
  /\ calls = <<>>
  /\ probe = NoProbe
  /\ tasks = NoTasks
  /\ users = DefaultUsers
  /\ tokens = NoTokens

LoopNext ==
  \/ converse
  \/ \E message \in LoopInputs : receive("chat", ScenarioSession, message)
  \/ \E message \in OtherInputs : receive("chat", OtherSession, message)
  \/ \E session_id \in LoopSessionIds : receive("delete", session_id, <<>>)
  \/ \E current_user \in Principals : create_session(OtherSession, current_user)
  \/ \E i \in 1..Len(tasks) : run(i)

LoopSpec == LoopInit /\ [][LoopNext]_vars

\* The sessions the conversation of the script had led to before any request was received
Start == Conversation(script.messages, script.sent, env_subscription)

\* The sessions after a request was processed from its arrival to its answer with nothing in between
Alone(ss, t, env) ==
  LET first == task_step(ss, [t EXCEPT !.pc = "received"], env)
  IN IF first.task.pc = "done" THEN first.sessions ELSE task_step(first.sessions, first.task, env).sessions

\* The sessions after the first n requests of an order were each processed alone, one after the other
RECURSIVE Serial(_, _)
Serial(order, n) ==
  IF n = 0 THEN Start
  ELSE Alone(Serial(order, n - 1), tasks[order[n]], env_subscription)

\* The orders in which n requests can be taken
Orders(n) == {order \in [1..n -> 1..n] : \A i, j \in 1..n : order[i] = order[j] => i = j}

AllDone == \A i \in 1..Len(tasks) : tasks[i].pc = "done"

Touched ==
  {session_id \in (DOMAIN sessions) \cup (DOMAIN sessions') :
     \/ session_id \notin DOMAIN sessions
     \/ session_id \notin DOMAIN sessions'
     \/ sessions[session_id] # sessions'[session_id]}

\* The session id of the request a step processes: the request the event loop
\* ran, the next message of the conversation, or the session just created
Operated ==
  {tasks[i].session_id : i \in {j \in 1..Len(tasks) : Len(tasks') = Len(tasks) /\ tasks'[j].pc # tasks[j].pc}}
  \cup (IF script'.sent # script.sent THEN {ScenarioSession} ELSE {})
  \cup (IF tasks' = tasks /\ script' = script /\ response'.endpoint = "create_session" THEN {response'.session_id} ELSE {})

\* C32: a step that processes a message (a restart keyword included), a create
\* or a delete for one session id adds, removes or changes no session of
\* another id, whatever requests for other sessions are in flight around it.
C32_SessionsIsolated == [][Touched \subseteq Operated]_vars

\* C32 witness: both sessions exist, the other one with its principal's tags,
\* the conversation's one past its first question; a restart for the one and a
\* delete for the other were in flight together and the restart was answered,
\* the other session being still there.
C32_Witness ==
  /\ Len(tasks) = 2
  /\ tasks[1].session_id = ScenarioSession /\ tasks[1].message = <<"r","e","s","t","a","r","t">> /\ tasks[1].pc = "done" /\ tasks[1].overlapped
  /\ tasks[2].session_id = OtherSession /\ tasks[2].kind = "delete" /\ tasks[2].pc = "received"
  /\ OtherSession \in DOMAIN sessions
  /\ "_user_id" \in DOMAIN sessions[OtherSession].collected_params
  /\ sessions[ScenarioSession].state = "initial"
  /\ script.sent > 5

\* ------------------------------------------------------------------ the principal of a session

\* The keys create_session stores the principal under
PrincipalKeys == {"_user_id", "_username"}

\* The session as it would be had it been created for no principal
Anonymous(session) ==
  [session EXCEPT !.collected_params = [k \in (DOMAIN session.collected_params) \ PrincipalKeys |-> session.collected_params[k]]]

\* The same message answered for a session and for its anonymous twin
Twins(s, message, outcome) ==
  [tagged |-> chat_result(sessions, s, message, env_subscription, outcome),
   anonymous |-> chat_result([sessions EXCEPT ![s] = Anonymous(@)], s, message, env_subscription, outcome)]

\* C33: a session created for a principal and the session that differs from it
\* only in having none answer every message alike: the same reply state, and
\* afterwards the same state, resource type, subscription, resource group,
\* region, answers, cursor and config, the two still differing in nothing but
\* the principal's tags. Message by message, the two conversations stay twins.
C33_PrincipalOpaque ==
  \A s \in DOMAIN sessions : \A message \in Inputs : \A outcome \in OutcomesFor(sessions, s) :
    LET twins == Twins(s, message, outcome)
    IN /\ twins.tagged.response = twins.anonymous.response
       /\ twins.tagged.calls = <<>> <=> twins.anonymous.calls = <<>>
       /\ Anonymous(twins.tagged.sessions[s]) = twins.anonymous.sessions[s]
       /\ twins.tagged.sessions[s].config = twins.anonymous.sessions[s].config

\* C33 witness: a session created for a principal has been led to CONFIRMATION;
\* its tags are still among its answers and none of them is in its config.
C33_Witness ==
  \E s \in DOMAIN sessions :
    /\ PrincipalKeys \subseteq DOMAIN sessions[s].collected_params
    /\ sessions[s].state = "confirmation"
    /\ sessions[s].config = build_config_from_answers(sessions[s].resource_type, Anonymous(sessions[s]).collected_params)
    /\ sessions[s].config.name # None

\* ------------------------------------------------------------------ reported and stored state

\* C34 (as the spec has it): after a chat message was processed, the state the
\* reply reports is the state stored in the session. The model refutes it: after
\* a restart keyword, a cancel at CONFIRMATION or a restart at COMPLETED the reply
\* reports RESOURCE_SELECTION and the session is in INITIAL; after the
\* affirmative at CONFIRMATION the reply reports CREATING and the session is in
\* EXECUTION_METHOD.
C34_ReportedIsStored ==
  response.endpoint = "chat" => response.state = sessions[response.session_id].state

\* ------------------------------------------------------------------ CONFIRMATION

\* A value the validator yields for the question for some message of the script
Accepted(question, value) ==
  \E i \in 1..Len(script.messages) :
    LET v == validate_answer(question, script.messages[i]) IN v.ok /\ v.value = value

\* C35: a session of a resource type with a config branch that is in
\* CONFIRMATION has its cursor at the number of questions of its type, holds
\* under every question key of its type a value the validator accepted, and
\* has as config what build_config_from_answers yields for its current
\* collected_params; so it is after an edit round too.
C35_ConfirmationComplete ==
  \A s \in DOMAIN sessions :
    (sessions[s].state = "confirmation" /\ sessions[s].resource_type \in BranchTypes) =>
      LET session == sessions[s]
          questions == get_questions_for_resource(session.resource_type)
      IN /\ Cursor(session) = Len(questions)
         /\ "_question_index" \in DOMAIN session.collected_params
         /\ \A i \in 1..Len(questions) :
              /\ questions[i].key \in DOMAIN session.collected_params
              /\ Accepted(questions[i], session.collected_params[questions[i].key])
         /\ session.config = build_config_from_answers(session.resource_type, session.collected_params)

\* C35 witness: the Cosmos DB conversation was in CONFIRMATION with MongoDB and
\* the free tier, went through an edit round and is in CONFIRMATION again, with
\* the new name, the default API and the free tier declined.
C35_Witness ==
  /\ script.messages = EditOpening \o << <<"e","d","i","t">>, <<"a","c","c","t","2">>, <<>>, <<>>, <<>> >>
  /\ script.sent = Len(script.messages)
  /\ sessions[ScenarioSession].state = "confirmation"
  /\ sessions[ScenarioSession].config.name = <<"a","c","c","t","2">>
  /\ sessions[ScenarioSession].config.api_type = <<"S","Q","L">>
  /\ sessions[ScenarioSession].collected_params.api_type = <<"S","Q","L">>
  /\ ~sessions[ScenarioSession].config.enable_free_tier
  /\ Cursor(sessions[ScenarioSession]) = Len(COSMOSDB_QUESTIONS)

\* ------------------------------------------------------------------ provisioning and the session it was for

Waiting(resource_type, i) ==
  LET s == ScenarioSession
      s1 == set_state(set_resource_type(FlowsSessions, s, resource_type), s, "resource_config")
  IN [s1 EXCEPT ![s].collected_params = DictSet(@, "_question_index", i - 1)]

\* The session after the i-th question of a resource type was answered
Answering(resource_type, i, answer) ==
  handle_resource_config(Waiting(resource_type, i), ScenarioSession, answer).sessions[ScenarioSession]

\* C37: for a question with a default, the empty input is accepted by the
\* validator, and in RESOURCE_CONFIG it moves the cursor on by one and stores
\* under the question's key exactly what the default typed out stores; for a
\* question without a default the empty input is rejected, the cursor stays
\* and nothing is stored.
C37_DefaultsSelfConsistent ==
  (probe.fn = "validate_answer" /\ probe.answer = <<>> /\ probe.results # <<>>) =>
    \A resource_type \in BranchTypes : \A i \in 1..Len(get_questions_for_resource(resource_type)) :
      get_questions_for_resource(resource_type)[i] = probe.question =>
        LET question == probe.question
            empty == Answering(resource_type, i, <<>>)
        IN IF question.default # None
             THEN /\ probe.results[1].ok
                  /\ probe.results[1] = validate_answer(question, question.default)
                  /\ Cursor(empty) = i
                  /\ question.key \in DOMAIN empty.collected_params
                  /\ empty.collected_params[question.key] = probe.results[1].value
                  /\ empty.collected_params = Answering(resource_type, i, question.default).collected_params
           ELSE /\ ~probe.results[1].ok
                /\ Cursor(empty) = i - 1
                /\ question.key \notin DOMAIN empty.collected_params
                /\ empty.state = "resource_config"

\* C37 witness: the validator was called with the empty input on the PostgreSQL
\* version question, whose default "15" is all digits and is an option, not the
\* number of one; it returned the default.
C37_Witness ==
  /\ probe.fn = "validate_answer" /\ probe.answer = <<>> /\ probe.results # <<>>
  /\ probe.question = POSTGRESQL_QUESTIONS[2]
  /\ probe.question.default = <<"1","5">>
  /\ probe.results[1].ok /\ probe.results[1].value = <<"1","5">>

\* ------------------------------------------------------------------ user management

\* Bodies of POST /api/auth/users
UserCreates ==
  [email : { <<"b","o","b","@","x",".","i","o">> }, username : { <<"b","o","b">> }, password : { <<"P","a","s","s","w","0","r","d","!">> }, full_name : {None}, role : UserRole]

\* Bodies of PUT /api/auth/users/{user_id}, as model_dump(exclude_unset=True) gives them
UserUpdates ==
  { [username |-> <<"B","O","B">>], [username |-> <<>>], [username |-> None], [email |-> <<"A","D","M","I","N","@","a","z","u","r","e","-","c","h","a","t","b","o","t",".","l","o","c","a","l">>],
    [role |-> "user"], [role |-> "admin"] }

\* The users that are administrators
Admins(us) == {i \in 1..Len(us) : us[i].role = "admin"}

\* POST /api/auth/login of an administrator with the right password
login(username) ==
  /\ get_by_username(users, username) # <<>>
  /\ LET user == get_by_username(users, username)[1]
     IN /\ user.is_active
        /\ user.role = "admin"
        /\ tokens' = tokens \cup {user.id}
        /\ response' = HttpResponse("login", 200, user.id, "bearer")
  /\ UNCHANGED <<sessions, env_subscription, calls, probe, script, tasks, users>>

\* POST /api/auth/users by the holder of an admin token
create_user(admin, user_create) ==
  /\ admin \in tokens
  /\ Len(users) < Cardinality(UserIds)
  /\ \E r \in {user_store_create(users, user_create)} :
       /\ users' = r.users
       /\ tokens' = IF r.raised = "None" THEN tokens \ {NewUserId(users)} ELSE tokens
       /\ response' = IF r.raised = "None" THEN HttpResponse("create_user", 201, NewUserId(users), "created")
                      ELSE HttpResponse("create_user", 400, "None", r.raised)
  /\ UNCHANGED <<sessions, env_subscription, calls, probe, script, tasks>>

\* PUT /api/auth/users/{user_id} by the holder of an admin token
update_user(admin, user_id, update_data) ==
  /\ admin \in tokens
  /\ \E r \in {user_store_update(users, user_id, update_data)} :
       /\ users' = r.users
       /\ response' = IF r.raised # "None" THEN HttpResponse("update_user", 400, user_id, r.raised)
                      ELSE IF r.returned = "None" THEN HttpResponse("update_user", 404, user_id, "User not found")
                      ELSE HttpResponse("update_user", 200, user_id, "updated")
  /\ UNCHANGED <<sessions, env_subscription, calls, probe, script, tasks, tokens>>

\* DELETE /api/auth/users/{user_id} by the holder of an admin token
delete_user(admin, user_id) ==
  /\ admin \in tokens
  /\ \E r \in {IF user_id = admin THEN StoreResult(users, "None", "Cannot delete your own account")
               ELSE user_store_delete(users, user_id)} :
       /\ users' = r.users
       /\ response' = IF r.raised # "None" THEN HttpResponse("delete_user", 400, user_id, r.raised)
                      ELSE IF r.returned = "False" THEN HttpResponse("delete_user", 404, user_id, "User not found")
                      ELSE HttpResponse("delete_user", 200, user_id, "User deleted successfully")
  /\ UNCHANGED <<sessions, env_subscription, calls, probe, script, tasks, tokens>>

\* UserStore._load of the users _save wrote: a user that UserInDB does not
\* validate (a username shorter than 3 or longer than 50) fails the whole load
Loaded(us) == IF \E i \in 1..Len(us) : Len(us[i].username) < 3 \/ Len(us[i].username) > 50 THEN <<>> ELSE us

\* The process is started again: UserStore.__init__ loads the users and runs _ensure_admin
restart ==
  /\ \/ Len(Loaded(users)) < Cardinality(UserIds)
     \/ \E i \in 1..Len(Loaded(users)) : Loaded(users)[i].role = "admin" /\ Loaded(users)[i].username = <<"a","d","m","i","n">>
  /\ users' = ensure_admin(Loaded(users))
  /\ response' = NoResponse
  /\ UNCHANGED <<sessions, env_subscription, calls, probe, script, tasks, tokens>>

UserInit ==
  /\ sessions = EmptyDict
  /\ env_subscription = <<>>
  /\ response = NoResponse
  /\ calls = <<>>
  /\ probe = NoProbe
  /\ script = NoScript
  /\ tasks = NoTasks
  /\ users = DefaultUsers
  /\ tokens = NoTokens

UserNext ==
  \/ \E i \in 1..Len(users) : login(users[i].username)
  \/ \E admin \in UserIds, user_create \in UserCreates : create_user(admin, user_create)
  \/ \E admin \in UserIds, user_id \in UserIds, update_data \in UserUpdates : update_user(admin, user_id, update_data)
  \/ \E admin \in UserIds, user_id \in UserIds : delete_user(admin, user_id)
  \/ restart

UserSpec == UserInit /\ [][UserNext]_vars

\* C38 (as the spec has it): the store holds an administrator after any create,
\* update or delete. The model refutes it: an update with role "user" for the
\* only administrator is carried out.
C38_AdminKept == Admins(users) # {}

\* C39 (as the spec has it): no two users of the store share a username or an
\* email address, compared case-insensitively. The model refutes it: an update
\* to an empty username is not compared with the other users, and a restart
\* adds the default admin beside a user that has its name or its address.
C39_IdentitiesUnique ==
  \A i, j \in 1..Len(users) :
    i # j => /\ Lower(users[i].username) # Lower(users[j].username)
             /\ Lower(users[i].email) # Lower(users[j].email)

====
